---- MODULE Spec2Model ----
(***************************************************************************)
(* Model of the document ingestion and retrieval pipeline:                 *)
(*   app/services/embedding_service.py   EmbeddingService                  *)
(*   app/services/pinecone_service.py    PineconeService                   *)
(*   app/services/document_service.py    DocumentService                   *)
(*   app/services/parsers.py             DocumentParser                    *)
(*   app/services/rag_service.py         RAGService                        *)
(*   app/routers/documents.py            upload_document                   *)
(* Python values are modelled as follows: None is a record field           *)
(* has* = FALSE beside the value; float scores in [0,1] are integers in    *)
(* percent; str(e) of an exception is a string that may be empty.          *)
(***************************************************************************)
EXTENDS Integers, Sequences, FiniteSets, TLC

(***************************************************************************)
(* Bounds of the model.                                                    *)
(***************************************************************************)
MaxTexts == 3
MaxBatchSize == 2
MaxWorkers == 2

\* chunk texts the chunker may produce
Texts == {"a", "b"}
\* str(e) of a collaborator exception: any string, the empty one included
ErrMsgs == {"", "boom"}

VARIABLES
    \* --- EmbeddingService.generate_embeddings
    texts,            \* the argument
    batch_size,       \* settings.DOCUMENT_EMBEDDING_BATCH_SIZE
    embed_workers,    \* settings.DOCUMENT_EMBEDDING_PARALLEL_WORKERS
    e_pc,             \* "idle" | "called" | "running" | "returned" | "raised"
    e_st,             \* per batch: "queued" | "running" | "finished" | "collected"
    e_res,            \* per batch: what generate_batch_embeddings returned
    batch_results,    \* per batch: <<>> (no key) or <<value>>
    e_order,          \* batch numbers in the order as_completed yielded them
    e_pending,        \* <<>> or <<exception>> raised inside the with block
    all_embeddings,   \* the list returned
    e_error           \* the exception that left generate_embeddings

embVars == <<texts, batch_size, embed_workers, e_pc, e_st, e_res, batch_results,
             e_order, e_pending, all_embeddings, e_error>>

VARIABLES
    \* --- PineconeService.upsert_vectors and the vector store
    vectors,              \* the argument
    pinecone_batch_size,  \* settings.PINECONE_BATCH_SIZE
    upsert_workers,       \* settings.DOCUMENT_PINECONE_UPSERT_PARALLEL_WORKERS
    hash_fn,              \* hash() of this process (PYTHONHASHSEED)
    u_pc,                 \* "idle" | "called" | "running" | "returned" | "raised"
    u_st,                 \* per batch: "queued" | "running" | "finished" | "collected"
    u_res,                \* per batch: what upsert_batch returned
    u_pending,            \* <<>> or <<exception>> raised inside the with block
    upserted_count,       \* the running sum, returned at the end
    u_error,              \* the exception that left upsert_vectors
    store                 \* the vectors the index holds

upVars == <<vectors, pinecone_batch_size, upsert_workers, hash_fn, u_pc, u_st, u_res,
            u_pending, upserted_count, u_error, store>>

VARIABLES
    \* --- DocumentService.process_document
    pc,           \* where process_document is
    file_ext,     \* Path(filename).suffix.lower()
    progress,     \* the percent values delivered to the progress sink, in order
    chunks,       \* text_splitter.split_text(content)
    documents,    \* the chunk records
    started,      \* the stages begun so far, in order
    failed,       \* the stage whose failure ended the run, or "none"
    result        \* the returned dict

docVars == <<pc, file_ext, progress, chunks, documents, started, failed, result>>

VARIABLES
    \* --- RAGService
    threshold,        \* settings.PINECONE_RAG_SIMILARITY_THRESHOLD, in percent
    rag_k,            \* settings.PINECONE_RAG_K
    f_pc,             \* the call of a pure function: "called" | "returned" | "off"
    f_docs,           \* its argument: a list of documents
    f_out             \* its result

fnVars == <<threshold, rag_k, f_pc, f_docs, f_out>>

VARIABLES
    \* --- RAGService.retrieve_context
    r_pc,             \* where retrieve_context is
    has_retriever,    \* self.retriever is not None
    rag_enabled,      \* settings.CHAT_RAG_ENABLED
    query_gen,        \* use_query_generation and settings.CHAT_QUERY_GEN_ENABLED
    parallel_search,  \* settings.CHAT_PARALLEL_SEARCH
    expansion_failed, \* <<the question expander failed, the answer expander failed>>
    search_queries,   \* the search set
    s_st,             \* per query: "queued" | "running" | "finished" | "collected"
    s_docs,           \* per query: what search_documents returned
    s_log,            \* per query: the store's answers to invoke and to the retry
    s_order,          \* query positions in the order their results were collected
    relevant_docs,    \* the passages collected so far
    score_results,    \* the (doc, score) pairs similarity_search_with_score returned
    r_steps,          \* the search steps completed so far, each with the number
                      \* of passages it returned
    r_found,          \* some store call has returned at least one candidate
    r_result          \* what retrieve_context returned

ragVars == <<r_pc, has_retriever, rag_enabled, query_gen, parallel_search, expansion_failed,
             search_queries, s_st, s_docs, s_log, s_order, relevant_docs, score_results,
             r_steps, r_found, r_result>>

VARIABLES
    \* --- repeated ingestions, seen from the vector store
    uploads,     \* the uploads to come and done: each a filename and its chunks
    prepared,    \* per finished ingestion: the vectors prepare_vectors built
    restarted    \* the server process was restarted between two ingestions

idVars == <<uploads, prepared, restarted>>

VARIABLES
    \* --- RecursiveCharacterTextSplitter and split_text
    sp_pc,          \* "off" | "called" | "split"
    content,        \* the text handed to split_text, a sequence of characters
    chunk_size,     \* settings.DOCUMENT_CHUNK_SIZE
    chunk_overlap   \* settings.DOCUMENT_CHUNK_OVERLAP

splitVars == <<sp_pc, content, chunk_size, chunk_overlap>>

VARIABLES
    \* --- DocumentParser.parse_docx / parse_pdf (one page) and the image pool
    d_pc,               \* "off" | "called" | "images" | "returned" | "raised"
    d_file,             \* the file: its kind, whether it opens, its elements in
                        \* document order, and how the extraction of each image goes
    image_workers,      \* settings.DOCUMENT_IMAGE_EXTRACTION_PARALLEL_WORKERS
    image_data_list,    \* the numbers of the images whose bytes were extracted
    i_st,               \* per submitted image: "queued" | "running" | "finished" | "collected"
    i_res,              \* per submitted image: what process_image returned
    image_results,      \* image number -> entry, as far as collected
    image_descriptions, \* the list _extract_images_* builds
    content_parts,      \* the parts collected from paragraphs and tables
    d_out               \* the content the parser returned, part by part

parseVars == <<d_pc, d_file, image_workers, image_data_list, i_st, i_res, image_results,
               image_descriptions, content_parts, d_out>>

VARIABLES
    \* --- upload_document and its generator process_with_streaming
    tmp_file,   \* the temporary copy: "none" | "exists" | "deleted"
    client,     \* "connected" | "gone"
    g_pc,       \* where the generator is: "none" | "unstarted" | "start_events" |
                \* "loop" | "loop_yield" | "joining" | "final_yield" | "closed" |
                \* "dropped" | "abandoned"
    g_sent      \* how many events of the progress queue were yielded

streamVars == <<tmp_file, client, g_pc, g_sent>>

VARIABLES
    \* --- PineconeService.get_index and the index at the vector-store service
    index_exists,  \* the index of settings.PINECONE_INDEX_NAME exists at the service
    create_calls,  \* how many times create_index was called by this process
    gi_pc,         \* per caller of get_index: "idle" | "index" | "create" | "reopen" |
                   \* "returned" | "raised"
    gi_op,         \* per caller: "ingest" | "delete" | "stats"
    pinecone_client \* what get_pinecone_client() gave: "client" | "none"

indexVars == <<index_exists, create_calls, gi_pc, gi_op, pinecone_client>>

VARIABLES
    \* --- DataService.save_user_data and the table at the database service
    table,      \* the rows, in insertion order: [id, email]
    notified,   \* the emails a notification was sent for, in order
    sv_pc,      \* per call: "called" | "selected" | "inserted" | "returned"
    sv_email,   \* per call: the email of user_data
    sv_res      \* per call: what save_user_data returned

dataVars == <<table, notified, sv_pc, sv_email, sv_res>>

vars == <<embVars, upVars, docVars, fnVars, ragVars, idVars, splitVars, parseVars, streamVars,
         indexVars, dataVars>>

(***************************************************************************)
(* Helpers                                                                 *)
(***************************************************************************)
Min(a, b) == IF a <= b THEN a ELSE b

SeqsUpTo(S, n) == UNION {[1..k -> S] : k \in 0..n}

RECURSIVE Concat(_)
\* list.extend over a sequence of sequences
Concat(ss) == IF ss = <<>> THEN <<>> ELSE Head(ss) \o Concat(Tail(ss))

RECURSIVE SortedSeq(_)
\* sorted(keys)
SortedSeq(S) ==
    IF S = {} THEN <<>>
    ELSE LET m == CHOOSE x \in S : \A y \in S : x <= y
         IN  <<m>> \o SortedSeq(S \ {m})

(***************************************************************************)
(* EmbeddingProvider: embed_documents(batch_texts)                         *)
(***************************************************************************)
\* the provider's vector for one text
Vec(t) == <<"vec", t>>

EmbedDocuments(batch_texts) == [i \in 1..Len(batch_texts) |-> Vec(batch_texts[i])]

(***************************************************************************)
(* EmbeddingService.generate_embeddings                                    *)
(***************************************************************************)
\* total_batches = (len(texts) + batch_size - 1) // batch_size
TotalBatches(n, bs) == (n + bs - 1) \div bs

\* slices that reach one element into the next one
OverlappingBatches(ts, bs) ==
    [k \in 1..TotalBatches(Len(ts), bs) |->
        [num |-> k, items |-> SubSeq(ts, (k - 1) * bs + 1, Min(k * bs + 1, Len(ts)))]]

\* batches.append((i // batch_size + 1, texts[i:i + batch_size]))
Batches(ts, bs) ==
    [k \in 1..TotalBatches(Len(ts), bs) |->
        [num |-> k, items |-> SubSeq(ts, (k - 1) * bs + 1, Min(k * bs, Len(ts)))]]

\* what generate_batch_embeddings returns: (batch_num, embeddings, None) or
\* (batch_num, None, str(e))
BatchOk(num, emb) == [num |-> num, hasEmb |-> TRUE, emb |-> emb, hasErr |-> FALSE, error |-> ""]
BatchErr(num, msg) == [num |-> num, hasEmb |-> FALSE, emb |-> <<>>, hasErr |-> TRUE, error |-> msg]

NoResult == [num |-> 0, hasEmb |-> FALSE, emb |-> <<>>, hasErr |-> FALSE, error |-> ""]

\* Python truth value of the error element: None and "" are false
Truthy(r) == r.hasErr /\ r.error # ""

\* the body of the as_completed loop: "if error: raise ..." else store
OnBatchResult(r) == IF Truthy(r) THEN "raise" ELSE "store"

NoException == [kind |-> "none", batch |-> 0, msg |-> ""]
BatchException(num, msg) == [kind |-> "BatchError", batch |-> num, msg |-> msg]
\* all_embeddings.extend(None)
ExtendNoneError == [kind |-> "TypeError", batch |-> 0, msg |-> "'NoneType' object is not iterable"]

Keys(br) == {k \in DOMAIN br : br[k] # <<>>}

\* generate_embeddings combining the results in the order the batches completed
CombineInCompletionOrder(br, order) ==
    LET ks == SelectSeq(order, LAMBDA k : k \in Keys(br))
    IN  Concat([i \in 1..Len(ks) |-> br[ks[i]][1].emb])

\* for batch_num in sorted(batch_results.keys()): all_embeddings.extend(...)
CombineResults(br, order) ==
    LET ks == SortedSeq(Keys(br))
    IN  Concat([i \in 1..Len(ks) |-> br[ks[i]][1].emb])

\* some stored value is None, so that extend raises
SomeNone(br) == \E k \in Keys(br) : ~br[k][1].hasEmb

NumBatches == Len(e_st)
Running == {b \in 1..NumBatches : e_st[b] = "running"}
Queued == {b \in 1..NumBatches : e_st[b] = "queued"}

\* max_workers = min(len(batches), settings.DOCUMENT_EMBEDDING_PARALLEL_WORKERS)
EmbedMaxWorkers == Min(NumBatches, embed_workers)

\* if not texts: return []  /  build the batches and submit them all
GenerateEmbeddings ==
    /\ e_pc = "called"
    /\ IF texts = <<>>
       THEN /\ e_pc' = "returned"
            /\ UNCHANGED <<e_st, e_res, batch_results>>
       ELSE LET nb == TotalBatches(Len(texts), batch_size)
            IN  /\ e_pc' = "running"
                /\ e_st' = [b \in 1..nb |-> "queued"]
                /\ e_res' = [b \in 1..nb |-> NoResult]
                /\ batch_results' = [b \in 1..nb |-> <<>>]
    /\ all_embeddings' = <<>>
    /\ UNCHANGED <<texts, batch_size, embed_workers, e_order, e_pending, e_error>>

\* a pool thread takes the next work item off the queue
EmbedWorkerStart(b) ==
    /\ e_pc = "running"
    /\ b \in Queued
    /\ \A c \in Queued : b <= c
    /\ Cardinality(Running) < EmbedMaxWorkers
    /\ e_st' = [e_st EXCEPT ![b] = "running"]
    /\ UNCHANGED <<texts, batch_size, embed_workers, e_pc, e_res, batch_results,
                   e_order, e_pending, all_embeddings, e_error>>

\* generate_batch_embeddings: the provider call returns or throws
EmbedWorkerFinish(b) ==
    /\ e_pc = "running"
    /\ e_st[b] = "running"
    /\ \E r \in {BatchOk(b, EmbedDocuments(Batches(texts, batch_size)[b].items))}
                \cup {BatchErr(b, m) : m \in ErrMsgs} :
          e_res' = [e_res EXCEPT ![b] = r]
    /\ e_st' = [e_st EXCEPT ![b] = "finished"]
    /\ UNCHANGED <<texts, batch_size, embed_workers, e_pc, batch_results,
                   e_order, e_pending, all_embeddings, e_error>>

\* one iteration of "for future in as_completed(future_to_batch)"
EmbedCollect(b) ==
    /\ e_pc = "running"
    /\ e_pending = <<>>
    /\ e_st[b] = "finished"
    /\ e_st' = [e_st EXCEPT ![b] = "collected"]
    /\ e_order' = Append(e_order, b)
    /\ LET r == e_res[b]
           what == OnBatchResult(r)
       IN  /\ e_pending' = IF what = "raise"
                           THEN <<BatchException(r.num, r.error)>> ELSE <<>>
           /\ batch_results' = IF what = "store"
                               THEN [batch_results EXCEPT ![r.num] =
                                        <<[hasEmb |-> r.hasEmb, emb |-> r.emb]>>]
                               ELSE batch_results
    /\ UNCHANGED <<texts, batch_size, embed_workers, e_pc, e_res,
                   all_embeddings, e_error>>

\* leaving the with block (the executor joins its threads), then either the
\* pending exception propagates or the results are combined and returned
EmbedFinishCall ==
    /\ e_pc = "running"
    /\ \A b \in 1..NumBatches : e_st[b] \in {"finished", "collected"}
    /\ e_pending # <<>> \/ \A b \in 1..NumBatches : e_st[b] = "collected"
    /\ IF e_pending # <<>>
       THEN /\ e_pc' = "raised"
            /\ e_error' = e_pending[1]
            /\ UNCHANGED all_embeddings
       ELSE IF SomeNone(batch_results)
            THEN /\ e_pc' = "raised"
                 /\ e_error' = ExtendNoneError
                 /\ UNCHANGED all_embeddings
            ELSE /\ e_pc' = "returned"
                 /\ all_embeddings' = CombineResults(batch_results, e_order)
                 /\ UNCHANGED e_error
    /\ UNCHANGED <<texts, batch_size, embed_workers, e_st, e_res, batch_results,
                   e_order, e_pending>>

EmbedIdle ==
    /\ e_st = <<>> /\ e_res = <<>> /\ batch_results = <<>> /\ e_order = <<>>
    /\ e_pending = <<>> /\ all_embeddings = <<>> /\ e_error = NoException

(***************************************************************************)
(* PineconeService                                                         *)
(***************************************************************************)
\* the values hash() may return; which one a string gets depends on the process
HashValues == {"h1", "h2", "h3"}
HashDomain == {"a", "b", "c"}
HashFns == [HashDomain -> HashValues]

\* vector_id = f"{filename}_{i}_{hash(doc['text'])}"   (i counts from 0)
VectorId(filename, i, text) == <<filename, i, hash_fn[text]>>

Filename == "f"

\* for i, (doc, embedding) in enumerate(zip(documents, embeddings)): zip stops
\* at the shorter of the two
PrepareVectors(docs, embeddings, filename) ==
    [k \in 1..Min(Len(docs), Len(embeddings)) |->
        [id |-> VectorId(filename, k - 1, docs[k].text),
         values |-> embeddings[k],
         text |-> docs[k].text,
         chunk_index |-> docs[k].chunk_index,
         total_chunks |-> docs[k].total_chunks]]

\* what upsert_batch returns: (batch_num, len(batch_vectors), None) or
\* (batch_num, 0, str(e))
UpsertOk(num, n) == [num |-> num, count |-> n, hasErr |-> FALSE, error |-> ""]
UpsertErr(num, msg) == [num |-> num, count |-> 0, hasErr |-> TRUE, error |-> msg]
NoUpsertResult == [num |-> 0, count |-> 0, hasErr |-> FALSE, error |-> ""]

UpsertException(num, msg) == [kind |-> "UpsertError", batch |-> num, msg |-> msg]
IndexException == [kind |-> "IndexError", batch |-> 0, msg |-> "Failed to create/get index"]

NumUpsertBatches == Len(u_st)
UpsertRunning == {b \in 1..NumUpsertBatches : u_st[b] = "running"}
UpsertQueued == {b \in 1..NumUpsertBatches : u_st[b] = "queued"}

\* max_workers = min(total_batches, settings.DOCUMENT_PINECONE_UPSERT_PARALLEL_WORKERS)
UpsertMaxWorkers == Min(NumUpsertBatches, upsert_workers)

\* get_index: Index(name) returns, or throws and create_index is tried, which
\* returns the index or throws "Failed to create/get index"
GetIndexOutcomes == {"ok", "created", "raise"}

\* if not vectors: return 0 / index = self.get_index() / build and submit the batches
UpsertVectors(gi) ==
    /\ u_pc = "called"
    /\ IF vectors = <<>>
       THEN /\ u_pc' = "returned"
            /\ UNCHANGED <<u_st, u_res, u_error>>
       ELSE IF gi = "raise"
            THEN /\ u_pc' = "raised"
                 /\ u_error' = IndexException
                 /\ UNCHANGED <<u_st, u_res>>
            ELSE LET nb == TotalBatches(Len(vectors), pinecone_batch_size)
                 IN  /\ u_pc' = "running"
                     /\ u_st' = [b \in 1..nb |-> "queued"]
                     /\ u_res' = [b \in 1..nb |-> NoUpsertResult]
                     /\ UNCHANGED u_error
    /\ upserted_count' = 0
    /\ UNCHANGED <<vectors, pinecone_batch_size, upsert_workers, hash_fn, u_pending, store>>

\* a pool thread takes the next work item off the queue
UpsertWorkerStart(b) ==
    /\ u_pc = "running"
    /\ b \in UpsertQueued
    /\ \A c \in UpsertQueued : b <= c
    /\ Cardinality(UpsertRunning) < UpsertMaxWorkers
    /\ u_st' = [u_st EXCEPT ![b] = "running"]
    /\ UNCHANGED <<vectors, pinecone_batch_size, upsert_workers, hash_fn, u_pc, u_res,
                   u_pending, upserted_count, u_error, store>>

\* upsert_batch: index.upsert(vectors=batch_vectors) writes the batch or throws
UpsertWorkerFinish(b, ok, msg) ==
    /\ u_pc = "running"
    /\ u_st[b] = "running"
    /\ LET items == Batches(vectors, pinecone_batch_size)[b].items
       IN  IF ok
           THEN /\ store' = store \cup {items[k].id : k \in 1..Len(items)}
                /\ u_res' = [u_res EXCEPT ![b] = UpsertOk(b, Len(items))]
           ELSE /\ store' = store
                /\ u_res' = [u_res EXCEPT ![b] = UpsertErr(b, msg)]
    /\ u_st' = [u_st EXCEPT ![b] = "finished"]
    /\ UNCHANGED <<vectors, pinecone_batch_size, upsert_workers, hash_fn, u_pc,
                   u_pending, upserted_count, u_error>>

\* one iteration of "for future in as_completed(future_to_batch)"
UpsertCollect(b) ==
    /\ u_pc = "running"
    /\ u_pending = <<>>
    /\ u_st[b] = "finished"
    /\ u_st' = [u_st EXCEPT ![b] = "collected"]
    /\ LET r == u_res[b]
       IN  IF Truthy(r)
           THEN /\ u_pending' = <<UpsertException(r.num, r.error)>>
                /\ UNCHANGED upserted_count
           ELSE /\ upserted_count' = upserted_count + r.count
                /\ UNCHANGED u_pending
    /\ UNCHANGED <<vectors, pinecone_batch_size, upsert_workers, hash_fn, u_pc, u_res,
                   u_error, store>>

\* a failed call that takes back what its batches wrote
UpsertFinishCallCompensating ==
    /\ u_pc = "running"
    /\ \A b \in 1..NumUpsertBatches : u_st[b] \in {"finished", "collected"}
    /\ u_pending # <<>> \/ \A b \in 1..NumUpsertBatches : u_st[b] = "collected"
    /\ IF u_pending # <<>>
       THEN u_pc' = "raised" /\ u_error' = u_pending[1] /\ store' = {}
       ELSE u_pc' = "returned" /\ UNCHANGED <<u_error, store>>
    /\ UNCHANGED <<vectors, pinecone_batch_size, upsert_workers, hash_fn, u_st, u_res,
                   u_pending, upserted_count>>

\* leaving the with block (the executor joins its threads), then either the
\* pending exception propagates or upserted_count is returned
UpsertFinishCall ==
    /\ u_pc = "running"
    /\ \A b \in 1..NumUpsertBatches : u_st[b] \in {"finished", "collected"}
    /\ u_pending # <<>> \/ \A b \in 1..NumUpsertBatches : u_st[b] = "collected"
    /\ IF u_pending # <<>>
       THEN u_pc' = "raised" /\ u_error' = u_pending[1]
       ELSE u_pc' = "returned" /\ UNCHANGED u_error
    /\ UNCHANGED <<vectors, pinecone_batch_size, upsert_workers, hash_fn, u_st, u_res,
                   u_pending, upserted_count, store>>

UpsertIdle ==
    /\ vectors = <<>> /\ u_st = <<>> /\ u_res = <<>> /\ u_pending = <<>>
    /\ upserted_count = 0 /\ u_error = NoException /\ store = {}

(***************************************************************************)
(* DocumentParser: the percent values each parser hands to progress_callback*)
(***************************************************************************)
\* progress = 18 + int((completed_count / len(image_data_list)) * 1), once per
\* completed image
ImageEvents(m) == [c \in 1..m |-> 18 + (c \div m)]

\* parse_docx: every 10 elements, progress = 12 + int((idx + 1) / total_elements * 5)
DocxElementEvents(n) == [j \in 1..(n \div 10) |-> 12 + ((10 * j * 5) \div n)]

\* _extract_images_from_docx: "Scanning" 18, then 19 when no image could be
\* read, else "Found" 18 and one event per completed description
DocxImageEvents(d) ==
    <<18>> \o (IF d.scan = "raise" THEN <<>>
               ELSE IF d.found = 0 THEN <<19>>
               ELSE <<18>> \o ImageEvents(d.found))

\* parse_docx
DocxEvents(d) ==
    <<10>> \o (IF ~d.open THEN <<>>
               ELSE <<12>> \o DocxElementEvents(d.elems) \o <<18>> \o DocxImageEvents(d))

\* _extract_images_from_pdf_page: "Analyzing" 18 and one event per completed
\* description, when PyMuPDF opened the file and at least one image was read
PdfImageEvents(pg) ==
    IF pg.fitz /\ pg.found > 0 THEN <<18>> \o ImageEvents(pg.found) ELSE <<>>

\* one iteration of "for page_num, page in enumerate(pdf.pages)":
\* progress = 12 + int((page_num / total_pages) * 5), then 17 if page.images
PdfPageEvents(page_num, total_pages, pg) ==
    <<12 + ((page_num * 5) \div total_pages)>>
    \o (IF pg.images THEN <<17>> \o PdfImageEvents(pg) ELSE <<>>)

\* parse_pdf
PdfEvents(d) ==
    <<10>> \o (IF ~d.open THEN <<>>
               ELSE <<12>> \o Concat([p \in 1..Len(d.pages) |->
                                        PdfPageEvents(p - 1, Len(d.pages), d.pages[p])]))

\* parse_txt
TxtEvents(d) == <<10>> \o (IF d.open THEN <<20>> ELSE <<>>)

ParserEvents(d) ==
    CASE d.kind = "docx" -> DocxEvents(d)
      [] d.kind = "pdf"  -> PdfEvents(d)
      [] OTHER           -> TxtEvents(d)

\* the files a parser may be given: whether the file opens, whether the
\* extracted content is empty, and the structure the progress depends on
PdfPages(maxImages) ==
    {[images |-> FALSE, fitz |-> TRUE, found |-> 0]}
    \cup [images : {TRUE}, fitz : BOOLEAN, found : 0..maxImages]

TxtFiles == [kind : {"txt"}, open : BOOLEAN, empty : BOOLEAN]

DocxFiles(maxElems, maxImages) ==
    {d \in [kind : {"docx"}, open : BOOLEAN, empty : BOOLEAN, elems : 0..maxElems,
            scan : {"ok", "raise"}, found : 0..maxImages] :
        d.found > 0 /\ d.scan = "ok" => ~d.empty}

PdfFiles(maxPages, maxImages) ==
    {d \in [kind : {"pdf"}, open : BOOLEAN, empty : BOOLEAN,
            pages : SeqsUpTo(PdfPages(maxImages), maxPages)] :
        /\ d.pages = <<>> => d.empty
        /\ (\E p \in 1..Len(d.pages) : d.pages[p].images) => ~d.empty}

(***************************************************************************)
(* DocumentService.process_document                                        *)
(***************************************************************************)
\* a dispatch whose last branch reads the file as text
ParserOfAnySuffix(ext) ==
    CASE ext \in {".docx", ".doc"} -> "docx"
      [] ext = ".pdf"              -> "pdf"
      [] OTHER                     -> "txt"

\* the suffixes process_document dispatches on
ParserOf(ext) ==
    CASE ext \in {".docx", ".doc"} -> "docx"
      [] ext = ".pdf"              -> "pdf"
      [] ext = ".txt"              -> "txt"
      [] OTHER                     -> "unsupported"

Extensions == {".docx", ".doc", ".pdf", ".txt", ".md"}

\* routers/documents.py
ALLOWED_EXTENSIONS == {".docx", ".doc", ".pdf", ".txt"}

ValueError(msg) == [kind |-> "ValueError", batch |-> 0, msg |-> msg]
ParseError == [kind |-> "Exception", batch |-> 0, msg |-> "Error parsing"]
SplitError == [kind |-> "Exception", batch |-> 0, msg |-> "split failed"]

NoResultYet == [success |-> FALSE, returned |-> FALSE, error |-> NoException, chunks_processed |-> 0]

\* except Exception as e: return {"success": False, "error": str(e)}
Fail(stage, e) ==
    /\ pc' = "done"
    /\ failed' = stage
    /\ result' = [success |-> FALSE, returned |-> TRUE, error |-> e, chunks_processed |-> 0]

\* upload_document: the suffix check, the temporary copy, and the three events
\* the stream sends itself before it starts the processing thread
UploadDocument ==
    /\ pc = "request"
    /\ IF file_ext \notin ALLOWED_EXTENSIONS
       THEN pc' = "rejected" /\ UNCHANGED progress
       ELSE pc' = "idle" /\ progress' = progress \o <<0, 5, 10>>
    /\ UNCHANGED <<file_ext, chunks, documents, started, failed, result>>

\* process_document up to the parser call ("request": called without the router)
ProcessDocument ==
    /\ pc \in {"request", "idle"}
    /\ progress' = progress \o <<10>>
    /\ started' = Append(started, "parse")
    /\ IF ParserOf(file_ext) = "unsupported"
       THEN Fail("parse", ValueError("Unsupported file type"))
       ELSE pc' = "parse" /\ UNCHANGED <<failed, result>>
    /\ UNCHANGED <<file_ext, chunks, documents>>

\* the parser call and the code up to the splitter
Parse(d) ==
    /\ pc = "parse"
    /\ d.kind = ParserOf(file_ext)
    /\ IF ~d.open
       THEN /\ progress' = progress \o ParserEvents(d)
            /\ Fail("parse", ParseError)
            /\ UNCHANGED started
       ELSE IF d.empty
       THEN /\ progress' = progress \o ParserEvents(d)
            /\ Fail("parse", ValueError("No content extracted from document"))
            /\ UNCHANGED started
       ELSE /\ progress' = progress \o ParserEvents(d) \o <<20, 30>>
            /\ started' = Append(started, "chunk")
            /\ pc' = "chunk"
            /\ UNCHANGED <<failed, result>>
    /\ UNCHANGED <<file_ext, chunks, documents>>

\* chunk records numbered from 1
ChunkRecordsFromOne(cs, filename) ==
    [k \in 1..Len(cs) |->
        [text |-> cs[k], filename |-> filename,
         chunk_index |-> k, total_chunks |-> Len(cs)]]

\* documents = [{"text": chunk, "metadata": {"filename": filename,
\* "chunk_index": i, "total_chunks": len(chunks)}} for i, chunk in enumerate(chunks)]
ChunkRecords(cs, filename) ==
    [k \in 1..Len(cs) |->
        [text |-> cs[k], filename |-> filename,
         chunk_index |-> k - 1, total_chunks |-> Len(cs)]]

\* split_text and the chunk records
Chunk(cs, ok) ==
    /\ pc = "chunk"
    /\ IF ~ok
       THEN /\ Fail("chunk", SplitError)
            /\ UNCHANGED <<progress, chunks, documents>>
       ELSE /\ chunks' = cs
            /\ documents' = ChunkRecords(cs, Filename)
            /\ progress' = progress \o <<40, 45, 50>>
            /\ pc' = "get_index"
            /\ UNCHANGED <<failed, result>>
    /\ UNCHANGED <<file_ext, started>>

\* self.pinecone_service.get_index(), then the call of generate_embeddings
GetIndex(gi) ==
    /\ pc = "get_index"
    /\ IF gi = "raise"
       THEN /\ Fail("connect", IndexException)
            /\ UNCHANGED <<progress, started, texts, e_pc>>
       ELSE /\ progress' = progress \o <<55, 60>>
            /\ started' = Append(started, "embed")
            /\ texts' = [k \in 1..Len(documents) |-> documents[k].text]
            /\ e_pc' = "called"
            /\ pc' = "embed"
            /\ UNCHANGED <<failed, result>>
    /\ UNCHANGED <<file_ext, chunks, documents>>
    /\ UNCHANGED <<batch_size, embed_workers, e_st, e_res, batch_results, e_order,
                   e_pending, all_embeddings, e_error>>

\* generate_embeddings is back: prepare_vectors, then the call of upsert_vectors
EmbedReturn ==
    /\ pc = "embed"
    /\ e_pc \in {"returned", "raised"}
    /\ IF e_pc = "raised"
       THEN /\ Fail("embed", e_error)
            /\ UNCHANGED <<progress, started, vectors, u_pc>>
       ELSE /\ progress' = progress \o <<75, 80>>
            /\ started' = Append(started, "index")
            /\ vectors' = PrepareVectors(documents, all_embeddings, Filename)
            /\ u_pc' = "called"
            /\ pc' = "index"
            /\ UNCHANGED <<failed, result>>
    /\ UNCHANGED <<file_ext, chunks, documents>>
    /\ UNCHANGED <<pinecone_batch_size, upsert_workers, hash_fn, u_st, u_res, u_pending,
                   upserted_count, u_error, store>>
    \* the frame of generate_embeddings is gone, and its locals with it; e_res
    \* stays as the record of what the provider answered
    /\ e_pc' = "idle"
    /\ e_st' = <<>> /\ batch_results' = <<>> /\ e_order' = <<>> /\ e_pending' = <<>>
    /\ UNCHANGED <<texts, batch_size, embed_workers, e_res, all_embeddings, e_error>>

\* upsert_vectors is back: the last event and the result
UpsertReturn ==
    /\ pc = "index"
    /\ u_pc \in {"returned", "raised"}
    /\ IF u_pc = "raised"
       THEN /\ Fail("index", u_error)
            /\ UNCHANGED progress
       ELSE /\ progress' = progress \o <<100>>
            /\ pc' = "done"
            /\ result' = [success |-> TRUE, returned |-> TRUE, error |-> NoException,
                          chunks_processed |-> Len(documents)]
            /\ UNCHANGED failed
    /\ UNCHANGED <<file_ext, chunks, documents, started>>

DocIdle ==
    /\ progress = <<>> /\ chunks = <<>> /\ documents = <<>> /\ started = <<>>
    /\ failed = "none" /\ result = NoResultYet

(***************************************************************************)
(* RAGService: documents, _filter_by_similarity, deduplicate_documents     *)
(*                                                                         *)
(* A document is a record: id tells two documents apart, <<prefix, rest>>  *)
(* is its page_content cut after the 500th character, rel is the store's   *)
(* similarity of the passage, and score / similarity_score are the         *)
(* metadata entries of those names: <<>> when the key is absent, <<v>>     *)
(* when it holds v.                                                        *)
(***************************************************************************)
PyNone == <<>>

PySome(v) == <<v>>

\* Python's `a or b` on optional numbers: a unless a is None or 0
PyOr(a, b) == IF a # PyNone /\ a[1] # 0 THEN a ELSE b

\* the cap of the fallback slice documents[:min(10, len(documents))]
FilterFallbackTop == 10

\* the loop body of _filter_by_similarity: is doc appended to filtered_docs
PassesThreshold(doc, th) ==
    LET score == PyOr(doc.score, doc.similarity_score)
    IN  IF score # PyNone THEN score[1] >= th ELSE TRUE

\* _filter_by_similarity without the "keep at least top results" branch
FilterWithoutFallback(docs, th) ==
    LET Test(d) == PassesThreshold(d, th)
    IN  IF th <= 0 THEN docs ELSE SelectSeq(docs, Test)

FilterBySimilarity(docs, th) ==
    LET Test(d) == PassesThreshold(d, th)
        filtered_docs == SelectSeq(docs, Test)
    IN  IF docs = <<>> THEN <<>>
        ELSE IF th <= 0 THEN docs
        ELSE IF filtered_docs = <<>>
             THEN SubSeq(docs, 1, Min(FilterFallbackTop, Len(docs)))
             ELSE filtered_docs

\* content[:500]
Prefix500(doc) == doc.prefix

\* hash(content[:500]) under this process's hash function
ContentHash(doc) == hash_fn[Prefix500(doc)]

\* the loop of deduplicate_documents from a given seen_content
RECURSIVE UniqueDocs(_, _)

UniqueDocs(docs, seen_content) ==
    IF docs = <<>> THEN <<>>
    ELSE LET content_hash == ContentHash(Head(docs))
         IN  IF content_hash \in seen_content
             THEN UniqueDocs(Tail(docs), seen_content)
             ELSE <<Head(docs)>> \o UniqueDocs(Tail(docs), seen_content \cup {content_hash})

\* deduplicate_documents without the final slice
DeduplicateUntruncated(docs, k) == UniqueDocs(docs, {})

DeduplicateDocuments(docs, k) ==
    IF docs = <<>> THEN <<>>
    ELSE LET unique_docs == UniqueDocs(docs, {})
         IN  SubSeq(unique_docs, 1, Min(k, Len(unique_docs)))

\* one call of one of the two functions on f_docs
FilterCall ==
    /\ f_pc = "filter"
    /\ f_out' = FilterBySimilarity(f_docs, threshold)
    /\ f_pc' = "filtered"
    /\ UNCHANGED <<threshold, rag_k, f_docs>>

DedupCall ==
    /\ f_pc = "dedup"
    /\ f_out' = DeduplicateDocuments(f_docs, rag_k)
    /\ f_pc' = "deduped"
    /\ UNCHANGED <<threshold, rag_k, f_docs>>

\* values of the two settings: the shipped threshold is 0.3, and 0 turns
\* filtering off; K is shipped as 30
Thresholds == {0, 30}
KValues == {2, 11}

FnOff == f_pc = "off" /\ f_docs = <<>> /\ f_out = <<>> /\ threshold = 30 /\ rag_k = 2

(***************************************************************************)
(* RAGService.retrieve_context and the searches it runs                    *)
(***************************************************************************)
MaxQueries == 2

Message == "q0"

\* the elements of the JSON array the language model may answer with: a
\* string (given by what strip() leaves of it, and whether strip() removed
\* anything) or a value that is no string. "ok" is a string of two characters.
StrItem(text, pad) == [isStr |-> TRUE, text |-> text, pad |-> pad]
NonString == [isStr |-> FALSE, text |-> "", pad |-> FALSE]
QueryItems ==
    {StrItem("q0", FALSE), StrItem("q1", FALSE), StrItem("q1", TRUE), StrItem("ok", FALSE),
     NonString}

\* q.strip()
Strip(item) == item.text

\* len(q.strip()) > 2
LongerThanTwo(text) == text # "ok" /\ text # ""

\* what one call of the language model comes to: the call raises, the reply
\* is no JSON, the JSON is no list, or it is a list of items
LlmRaises == [kind |-> "raise", items |-> <<>>]
LlmUnparsable == [kind |-> "unparsable", items |-> <<>>]
LlmNotList == [kind |-> "notlist", items |-> <<>>]
LlmList(items) == [kind |-> "list", items |-> items]
NoLlmCall == [kind |-> "nocall", items |-> <<>>]

LlmResponses ==
    {LlmRaises, LlmUnparsable, LlmNotList}
        \cup {LlmList(items) : items \in SeqsUpTo(QueryItems, MaxQueries)}

\* [q.strip() for q in queries if isinstance(q, str) and len(q.strip()) > 2]
RECURSIVE ValidQueries(_)

ValidQueries(items) ==
    IF items = <<>> THEN <<>>
    ELSE IF Head(items).isStr /\ LongerThanTwo(Strip(Head(items)))
         THEN <<Strip(Head(items))>> \o ValidQueries(Tail(items))
         ELSE ValidQueries(Tail(items))

\* return valid_queries[:12]
QuestionQueryCap == 12

\* generate_search_queries(message) on the reply resp
GenerateSearchQueries(resp) ==
    IF resp.kind # "list" THEN <<Message>>
    ELSE LET valid_queries == ValidQueries(resp.items)
         IN  IF valid_queries = <<>> THEN <<Message>>
             ELSE SubSeq(valid_queries, 1, Min(QuestionQueryCap, Len(valid_queries)))

\* generate_answer_focused_queries that answers [message] when it fails
AnswerQueriesOrMessage(resp) ==
    IF resp.kind # "list" THEN <<Message>> ELSE ValidQueries(resp.items)

\* generate_answer_focused_queries(message) on the reply resp
GenerateAnswerFocusedQueries(resp) ==
    IF resp.kind # "list" THEN <<>> ELSE ValidQueries(resp.items)

\* the search set without the original message put in front
SearchSetAsGenerated(question_queries, answer_queries) ==
    question_queries \o answer_queries

\* search_queries of retrieve_context when query generation is on
SearchSet(question_queries, answer_queries) ==
    LET generated == question_queries \o answer_queries
    IN  IF \E i \in 1..Len(generated) : generated[i] = Message
        THEN generated
        ELSE <<Message>> \o generated

\* the expander did not produce a list of queries: the call raised or the
\* reply did not parse to a list
ExpanderFailed(resp) == resp.kind \in {"raise", "unparsable", "notlist"}

\* the passages of the index: one with a high score in its metadata, one
\* without a score, and one whose score is below the shipped threshold
Doc(id, prefix, rest, rel, score) ==
    [id |-> id, prefix |-> prefix, rest |-> rest, rel |-> rel,
     score |-> score, similarity_score |-> PyNone]

P1 == Doc(1, "a", "", 90, PySome(90))
P2 == Doc(2, "b", "", 50, PyNone)
P3 == Doc(3, "c", "", 10, PySome(10))

\* what one call of the store gives: it raises, or it returns passages
\* ranked by descending similarity
Raise == [called |-> TRUE, ok |-> FALSE, docs |-> <<>>]
NotCalled == [called |-> FALSE, ok |-> FALSE, docs |-> <<>>]
Returns(ds) == [called |-> TRUE, ok |-> TRUE, docs |-> ds]

RankedLists == {<<>>, <<P1>>, <<P3>>, <<P1, P2>>}
StoreAnswers == {Raise} \cup {Returns(ds) : ds \in RankedLists}

\* what similarity_search_with_score gives: it raises, or it returns
\* (doc, score) pairs, nearest first; the score is the store's distance
P4 == Doc(4, "a", "x", 40, PyNone)
ScoredLists == {<<>>, <<<<P2, 3>>>>, <<<<P2, 3>>, <<P4, 4>>>>}
ScoreAnswers == {Raise} \cup {Returns(rs) : rs \in ScoredLists}

\* retriever.invoke(query) answers a1; get_relevant_documents(query) is
\* called only when invoke raised, and answers a2
StoreAnswerPairs ==
    {<<a1, a2>> \in StoreAnswers \X (StoreAnswers \cup {NotCalled}) :
        a2.called <=> ~a1.ok}

\* search_documents that lets the second failure out
SearchDocumentsRaising(a1, a2) ==
    IF a1.ok THEN [raised |-> FALSE, docs |-> FilterBySimilarity(a1.docs, threshold)]
    ELSE IF a2.ok THEN [raised |-> FALSE, docs |-> FilterBySimilarity(a2.docs, threshold)]
    ELSE [raised |-> TRUE, docs |-> <<>>]

\* search_documents(query): what it returns, and whether it raises
SearchDocuments(a1, a2) ==
    IF a1.ok THEN [raised |-> FALSE, docs |-> FilterBySimilarity(a1.docs, threshold)]
    ELSE IF a2.ok THEN [raised |-> FALSE, docs |-> FilterBySimilarity(a2.docs, threshold)]
    ELSE [raised |-> FALSE, docs |-> <<>>]

NotSearched == [raised |-> FALSE, docs |-> <<>>]
NoLog == <<NotCalled, NotCalled>>

\* ThreadPoolExecutor(max_workers=min(len(queries), 5))
SearchPoolCap == 5
\* a pool as wide as the list of queries
SearchMaxWorkersPerQuery == Len(search_queries)
SearchMaxWorkers == Min(Len(search_queries), SearchPoolCap)

NumQueries == Len(search_queries)
SearchRunning == {i \in 1..NumQueries : s_st[i] = "running"}
SearchQueued == {i \in 1..NumQueries : s_st[i] = "queued"}
SearchCollected == {i \in 1..NumQueries : s_st[i] = "collected"}

NoContext == [returned |-> TRUE, none |-> TRUE, docs |-> <<>>]
NotReturned == [returned |-> FALSE, none |-> TRUE, docs |-> <<>>]

\* the end of retrieve_context on the collected passages rd: deduplicate,
\* then build_rag_context(...) or None. relevant_docs keeps the list as it
\* was before deduplicate_documents; r_result.docs is the list after it.
ReturnContext(rd) ==
    LET deduped == DeduplicateDocuments(rd, rag_k)
    IN  /\ relevant_docs' = rd
        /\ r_result' = [returned |-> TRUE, none |-> deduped = <<>>, docs |-> deduped]
        /\ r_pc' = "done"

\* the `except Exception` of retrieve_context
ReturnOnException ==
    /\ r_result' = NoContext
    /\ r_pc' = "done"
    /\ UNCHANGED relevant_docs

\* a completed search step and the number of passages it returned
Step(name, docs) == [step |-> name, found |-> Len(docs)]

\* search_documents_parallel has returned rd, and the direct search follows
\* whatever rd holds
AfterMultiQueryAlwaysDirect(rd) ==
    /\ r_steps' = Append(r_steps, Step("multi", rd))
    /\ relevant_docs' = rd
    /\ r_pc' = "direct"
    /\ UNCHANGED r_result

\* search_documents_parallel has returned rd
AfterMultiQuery(rd) ==
    /\ r_steps' = Append(r_steps, Step("multi", rd))
    /\ IF rd # <<>> THEN ReturnContext(rd)
       ELSE /\ relevant_docs' = rd
            /\ r_pc' = "direct"
            /\ UNCHANGED r_result

RetrieveContext ==
    /\ r_pc = "called"
    /\ IF ~has_retriever \/ ~rag_enabled
       THEN r_result' = NoContext /\ r_pc' = "done"
       ELSE r_result' = r_result /\ r_pc' = "queries"
    /\ UNCHANGED <<has_retriever, rag_enabled, query_gen, parallel_search, expansion_failed,
                   score_results, search_queries,
                   s_st, s_docs, s_log, s_order, relevant_docs, r_steps, r_found>>

\* the language model answered question_resp to generate_search_queries and
\* answer_resp to generate_answer_focused_queries (neither is called when
\* query generation is off); then search_documents_parallel starts
GenerateQueries(question_resp, answer_resp) ==
    /\ r_pc = "queries"
    /\ ~query_gen <=> question_resp = NoLlmCall
    /\ ~query_gen <=> answer_resp = NoLlmCall
    /\ LET queries == IF ~query_gen THEN <<Message>>
                      ELSE SearchSet(GenerateSearchQueries(question_resp),
                                     GenerateAnswerFocusedQueries(answer_resp))
       IN  /\ Len(queries) <= MaxQueries
           /\ expansion_failed' = <<ExpanderFailed(question_resp), ExpanderFailed(answer_resp)>>
           /\ search_queries' = queries
           /\ s_st' = [i \in 1..Len(queries) |-> "queued"]
           /\ s_docs' = [i \in 1..Len(queries) |-> NotSearched]
           /\ s_log' = [i \in 1..Len(queries) |-> NoLog]
           /\ r_pc' = IF parallel_search /\ Len(queries) > 1 THEN "fanout" ELSE "sequential"
    /\ UNCHANGED <<has_retriever, rag_enabled, query_gen, parallel_search,
                   s_order, relevant_docs, score_results, r_steps, r_found, r_result>>

\* a pool worker takes the next submitted query
SearchStart(i) ==
    /\ r_pc = "fanout"
    /\ i \in SearchQueued
    /\ \A j \in SearchQueued : i <= j
    /\ Cardinality(SearchRunning) < SearchMaxWorkers
    /\ s_st' = [s_st EXCEPT ![i] = "running"]
    /\ UNCHANGED <<r_pc, has_retriever, rag_enabled, query_gen, parallel_search,
                   expansion_failed, score_results, search_queries,
                   s_docs, s_log, s_order, relevant_docs, r_steps, r_found, r_result>>

\* search_query(query) ends in its worker
SearchFinish(i, a1, a2) ==
    /\ r_pc = "fanout"
    /\ i \in SearchRunning
    /\ s_st' = [s_st EXCEPT ![i] = "finished"]
    /\ s_docs' = [s_docs EXCEPT ![i] = SearchDocuments(a1, a2)]
    /\ s_log' = [s_log EXCEPT ![i] = <<a1, a2>>]
    /\ r_found' = (r_found \/ a1.docs # <<>> \/ a2.docs # <<>>)
    /\ UNCHANGED <<r_pc, has_retriever, rag_enabled, query_gen, parallel_search,
                   expansion_failed, score_results, search_queries,
                   s_order, relevant_docs, r_steps, r_result>>

\* as_completed yields the future of query i; after the last one the pool
\* is left and retrieve_context goes on
SearchCollect(i) ==
    /\ r_pc = "fanout"
    /\ s_st[i] = "finished"
    /\ s_st' = [s_st EXCEPT ![i] = "collected"]
    /\ s_order' = Append(s_order, i)
    /\ LET rd == IF s_docs[i].raised THEN relevant_docs
                 ELSE relevant_docs \o s_docs[i].docs
       IN  IF SearchCollected \cup {i} = 1..NumQueries
           THEN AfterMultiQuery(rd)
           ELSE /\ relevant_docs' = rd
                /\ UNCHANGED <<r_pc, r_steps, r_result>>
    /\ UNCHANGED <<has_retriever, rag_enabled, query_gen, parallel_search, expansion_failed,
                   score_results, search_queries,
                   s_docs, s_log, r_found>>

\* one round of `for query in queries`
SearchSequential(a1, a2) ==
    /\ r_pc = "sequential"
    /\ LET i == Len(s_order) + 1
           res == SearchDocuments(a1, a2)
           rd == relevant_docs \o res.docs
       IN  /\ s_st' = [s_st EXCEPT ![i] = "collected"]
           /\ s_docs' = [s_docs EXCEPT ![i] = res]
           /\ s_log' = [s_log EXCEPT ![i] = <<a1, a2>>]
           /\ s_order' = Append(s_order, i)
           /\ IF res.raised THEN ReturnOnException /\ UNCHANGED r_steps
              ELSE IF i = NumQueries THEN AfterMultiQuery(rd)
              ELSE /\ relevant_docs' = rd
                   /\ UNCHANGED <<r_pc, r_steps, r_result>>
    /\ r_found' = (r_found \/ a1.docs # <<>> \/ a2.docs # <<>>)
    /\ UNCHANGED <<has_retriever, rag_enabled, query_gen, parallel_search, expansion_failed,
                   score_results, search_queries>>

\* relevant_docs = self.search_documents(message)
SearchDirect(a1, a2) ==
    /\ r_pc = "direct"
    /\ LET res == SearchDocuments(a1, a2)
       IN  /\ IF res.raised THEN ReturnOnException
              ELSE IF res.docs = <<>>
                   THEN r_pc' = "score" /\ UNCHANGED <<relevant_docs, r_result>>
                   ELSE ReturnContext(res.docs)
           /\ r_steps' = Append(r_steps, Step("direct", res.docs))
    /\ r_found' = (r_found \/ a1.docs # <<>> \/ a2.docs # <<>>)
    /\ UNCHANGED <<has_retriever, rag_enabled, query_gen, parallel_search, expansion_failed,
                   score_results, search_queries,
                   s_st, s_docs, s_log, s_order>>

\* the passages of [doc for doc, score in results]
DocsOf(results) == [n \in 1..Len(results) |-> results[n][1]]

\* vector_store.similarity_search_with_score(message, k=K) answered a: it
\* raised, or it returned (doc, score) pairs
SearchWithScore(a) ==
    /\ r_pc = "score"
    /\ LET results == IF a.ok THEN a.docs ELSE <<>>
       IN  /\ score_results' = results
           /\ ReturnContext(DocsOf(results))
           /\ r_steps' = Append(r_steps, Step("score", results))
    /\ r_found' = (r_found \/ a.docs # <<>>)
    /\ UNCHANGED <<has_retriever, rag_enabled, query_gen, parallel_search, expansion_failed,
                   search_queries, s_st, s_docs, s_log, s_order>>

RetrieveIdle ==
    /\ expansion_failed = <<FALSE, FALSE>> /\ score_results = <<>>
    /\ search_queries = <<>> /\ s_st = <<>> /\ s_docs = <<>> /\ s_log = <<>> /\ s_order = <<>>
    /\ relevant_docs = <<>> /\ r_steps = <<>> /\ r_found = FALSE /\ r_result = NotReturned

RetrieveOff ==
    /\ r_pc = "off" /\ has_retriever = FALSE /\ rag_enabled = FALSE
    /\ query_gen = FALSE /\ parallel_search = FALSE
    /\ RetrieveIdle

RagOff == FnOff /\ RetrieveOff

IdOff == uploads = <<>> /\ prepared = <<>> /\ restarted = FALSE

SplitOff == sp_pc = "off" /\ content = <<>> /\ chunk_size = 3 /\ chunk_overlap = 1

NoFile == [kind |-> "none", opens |-> FALSE, body |-> <<>>, scan |-> FALSE, extract |-> <<>>]

ParseIdle ==
    /\ image_data_list = <<>> /\ i_st = <<>> /\ i_res = <<>> /\ image_results = <<>>
    /\ image_descriptions = <<>> /\ content_parts = <<>> /\ d_out = <<>>

ParseOff == d_pc = "off" /\ d_file = NoFile /\ image_workers = 1 /\ ParseIdle

StreamOff == tmp_file = "none" /\ client = "connected" /\ g_pc = "none" /\ g_sent = 0

IndexOff ==
    /\ index_exists = FALSE /\ create_calls = 0 /\ gi_pc = <<>> /\ gi_op = <<>>
    /\ pinecone_client = "client"

DataOff == table = <<>> /\ notified = <<>> /\ sv_pc = <<>> /\ sv_email = <<>> /\ sv_res = <<>>

(***************************************************************************)
(* SpecEmbed: generate_embeddings called with any list of texts            *)
(***************************************************************************)
UpsertOff ==
    /\ pinecone_batch_size = 1 /\ upsert_workers = 1 /\ u_pc = "idle" /\ UpsertIdle
    /\ hash_fn = [s \in HashDomain |-> "h1"]

DocOff == pc = "off" /\ file_ext = ".txt" /\ DocIdle

InitEmbed ==
    /\ IdOff /\ SplitOff /\ ParseOff /\ StreamOff /\ IndexOff /\ DataOff
    /\ texts \in SeqsUpTo(Texts, MaxTexts)
    /\ batch_size \in 1..MaxBatchSize
    /\ embed_workers \in 1..MaxWorkers
    /\ e_pc = "called"
    /\ EmbedIdle
    /\ UpsertOff
    /\ DocOff
    /\ RagOff

EmbedStep ==
    \/ GenerateEmbeddings
    \/ \E b \in 1..NumBatches : EmbedWorkerStart(b)
    \/ \E b \in 1..NumBatches : EmbedWorkerFinish(b)
    \/ \E b \in 1..NumBatches : EmbedCollect(b)
    \/ EmbedFinishCall

NextEmbed == EmbedStep /\ UNCHANGED <<upVars, docVars, fnVars, ragVars, idVars, splitVars, parseVars, streamVars, indexVars, dataVars>>

SpecEmbed == InitEmbed /\ [][NextEmbed]_vars

EmbedCallOver == e_pc \in {"returned", "raised"}
FailedBatches == {b \in DOMAIN e_res : e_res[b].hasErr}

\* C1: when every batch succeeds, generate_embeddings returns one vector per
\* text and the i-th vector is the provider's vector for texts[i], whatever
\* order the batches completed in.
C1_EmbeddingsInInputOrder ==
    (EmbedCallOver /\ FailedBatches = {}) =>
        /\ e_pc = "returned"
        /\ Len(all_embeddings) = Len(texts)
        /\ \A i \in 1..Len(texts) : all_embeddings[i] = Vec(texts[i])

\* C1 witness: a call that returned although the second batch completed
\* before the first, on texts that differ between the two batches
C1_Witness ==
    /\ e_pc = "returned"
    /\ Len(e_order) >= 2 /\ e_order[1] = 2
    /\ Len(texts) = MaxTexts
    /\ texts[1] # texts[Len(texts)]

\* C2: if the provider fails for at least one batch, generate_embeddings
\* raises (it never returns a list), and the error names a failing batch.
C2_BatchFailureIdentified ==
    (EmbedCallOver /\ FailedBatches # {}) =>
        /\ e_pc = "raised"
        /\ e_error.kind = "BatchError"
        /\ e_error.batch \in FailedBatches

(***************************************************************************)
(* SpecIngest: one run of process_document, alone or behind the router     *)
(***************************************************************************)
MaxChunks == 2

UpsertStep ==
    \/ \E gi \in GetIndexOutcomes : UpsertVectors(gi)
    \/ \E b \in 1..NumUpsertBatches : UpsertWorkerStart(b)
    \/ \E b \in 1..NumUpsertBatches, ok \in BOOLEAN, m \in ErrMsgs :
            UpsertWorkerFinish(b, ok, m)
    \/ \E b \in 1..NumUpsertBatches : UpsertCollect(b)
    \/ UpsertFinishCall

\* two hash functions: one that tells "a" from "b" and one that does not
IngestHashFns == {f \in HashFns : f["a"] = "h1" /\ f["c"] = "h3" /\ f["b"] # "h3"}

InitIngest ==
    /\ IdOff /\ SplitOff /\ ParseOff /\ StreamOff /\ IndexOff /\ DataOff
    /\ pc = "request"
    /\ file_ext \in Extensions
    /\ DocIdle
    /\ texts = <<>> /\ e_pc = "idle" /\ EmbedIdle
    /\ batch_size \in 1..MaxBatchSize
    /\ embed_workers \in 1..MaxWorkers
    /\ pinecone_batch_size = batch_size
    /\ upsert_workers = embed_workers
    /\ hash_fn \in IngestHashFns
    /\ u_pc = "idle" /\ UpsertIdle
    /\ RagOff

IngestFiles == TxtFiles \cup DocxFiles(0, 0) \cup PdfFiles(1, 0)

NextIngest ==
    \/ UploadDocument /\ UNCHANGED <<embVars, upVars, fnVars, ragVars, idVars, splitVars, parseVars, streamVars, indexVars, dataVars>>
    \/ ProcessDocument /\ UNCHANGED <<embVars, upVars, fnVars, ragVars, idVars, splitVars, parseVars, streamVars, indexVars, dataVars>>
    \/ \E d \in IngestFiles : Parse(d) /\ UNCHANGED <<embVars, upVars, fnVars, ragVars, idVars, splitVars, parseVars, streamVars, indexVars, dataVars>>
    \/ \E cs \in SeqsUpTo(Texts, MaxChunks), ok \in BOOLEAN :
            Chunk(cs, ok) /\ UNCHANGED <<embVars, upVars, fnVars, ragVars, idVars, splitVars, parseVars, streamVars, indexVars, dataVars>>
    \/ \E gi \in GetIndexOutcomes : GetIndex(gi) /\ UNCHANGED <<upVars, fnVars, ragVars, idVars, splitVars, parseVars, streamVars, indexVars, dataVars>>
    \/ EmbedStep /\ UNCHANGED <<upVars, docVars, fnVars, ragVars, idVars, splitVars, parseVars, streamVars, indexVars, dataVars>>
    \/ EmbedReturn /\ UNCHANGED <<fnVars, ragVars, idVars, splitVars, parseVars, streamVars, indexVars, dataVars>>
    \/ UpsertStep /\ UNCHANGED <<embVars, docVars, fnVars, ragVars, idVars, splitVars, parseVars, streamVars, indexVars, dataVars>>
    \/ UpsertReturn /\ UNCHANGED <<embVars, upVars, fnVars, ragVars, idVars, splitVars, parseVars, streamVars, indexVars, dataVars>>

SpecIngest == InitIngest /\ [][NextIngest]_vars

\* the stages of one run, in pipeline order
StageOrder == <<"parse", "chunk", "embed", "index">>

\* the stages begun when a failure of the given kind ends the run
StartedWhenFailed(f) ==
    CASE f = "parse"   -> <<"parse">>
      [] f = "chunk"   -> <<"parse", "chunk">>
      [] f = "connect" -> <<"parse", "chunk">>
      [] f = "embed"   -> <<"parse", "chunk", "embed">>
      [] OTHER         -> StageOrder

FailedWrites == {b \in DOMAIN u_res : u_res[b].hasErr}

\* a stage failed: an exception reached the handler of process_document, or a
\* provider call or a batch write failed
SomeStageFailed == failed # "none" \/ FailedBatches # {} \/ FailedWrites # {}

\* C3: when a stage of process_document fails, no later stage is started and
\* the result is success=false with the error; when an embedding batch fails,
\* no vector of the document is written.
C3_FailureStopsPipeline ==
    pc = "done" =>
        /\ SomeStageFailed => (~result.success /\ result.error # NoException)
        /\ failed # "none" => started = StartedWhenFailed(failed)
        /\ FailedBatches # {} => store = {}

\* C16: once the write of some batch has failed, upsert_vectors raises and
\* returns no count, whatever the completion order and however many other
\* batches succeeded; process_document then reports success = false.
C16_FailedWriteRaises ==
    /\ (u_pc \in {"returned", "raised"} /\ FailedWrites # {}) => u_pc = "raised"
    /\ (pc = "done" /\ FailedWrites # {}) => ~result.success

\* C23: process_document on a file whose suffix is not a recognized one
\* returns the failure "Unsupported file type" and never reaches the parser
\* call, the embedding provider or the vector store
C23_UnsupportedFormatFails ==
    file_ext \notin {".docx", ".doc", ".pdf", ".txt"} =>
        /\ pc \in {"request", "rejected", "done"}
        /\ e_pc = "idle" /\ e_res = <<>>
        /\ u_pc = "idle" /\ u_res = <<>> /\ store = {}
        /\ pc = "done" =>
              /\ result.returned /\ ~result.success
              /\ result.error = ValueError("Unsupported file type")
              /\ started = <<"parse">>

C23_Witness ==
    /\ pc = "done" /\ file_ext = ".md"
    /\ result.returned /\ ~result.success

\* C24: an ingestion that ends without a single chunk record, because the
\* parser extracted no text or because the text gives no chunk, reports a
\* failure, never success
C24_NothingExtractedFails ==
    (pc = "done" /\ result.returned /\ documents = <<>>) => ~result.success

\* C39: whenever process_document returns success=true, the store holds at
\* least one vector of the document, and as many vectors as the
\* chunks_processed it reports
C39_SuccessMeansAllWritten ==
    (pc = "done" /\ result.returned /\ result.success) =>
        /\ Cardinality(store) >= 1
        /\ Cardinality(store) = result.chunks_processed

(***************************************************************************)
(* SpecProgress: one upload, over files of every structure                 *)
(***************************************************************************)
MaxElems == 20
MaxImages == 2
MaxPages == 2

InitProgress ==
    /\ IdOff /\ SplitOff /\ ParseOff /\ StreamOff /\ IndexOff /\ DataOff
    /\ pc = "request"
    /\ file_ext \in Extensions
    /\ DocIdle
    /\ texts = <<>> /\ e_pc = "idle" /\ EmbedIdle
    /\ batch_size = MaxBatchSize
    /\ embed_workers = 1
    /\ pinecone_batch_size = MaxBatchSize
    /\ upsert_workers = 1
    /\ hash_fn = [x \in HashDomain |-> "h1"]
    /\ u_pc = "idle" /\ UpsertIdle
    /\ RagOff

ProgressFiles ==
    TxtFiles \cup DocxFiles(MaxElems, MaxImages) \cup PdfFiles(MaxPages, MaxImages)

NextProgress ==
    \/ UploadDocument /\ UNCHANGED <<embVars, upVars, fnVars, ragVars, idVars, splitVars, parseVars, streamVars, indexVars, dataVars>>
    \/ ProcessDocument /\ UNCHANGED <<embVars, upVars, fnVars, ragVars, idVars, splitVars, parseVars, streamVars, indexVars, dataVars>>
    \/ \E d \in ProgressFiles : Parse(d) /\ UNCHANGED <<embVars, upVars, fnVars, ragVars, idVars, splitVars, parseVars, streamVars, indexVars, dataVars>>
    \/ \E n \in 0..MaxChunks, ok \in BOOLEAN :
            Chunk([k \in 1..n |-> "a"], ok) /\ UNCHANGED <<embVars, upVars, fnVars, ragVars, idVars, splitVars, parseVars, streamVars, indexVars, dataVars>>
    \/ \E gi \in GetIndexOutcomes : GetIndex(gi) /\ UNCHANGED <<upVars, fnVars, ragVars, idVars, splitVars, parseVars, streamVars, indexVars, dataVars>>
    \/ EmbedStep /\ UNCHANGED <<upVars, docVars, fnVars, ragVars, idVars, splitVars, parseVars, streamVars, indexVars, dataVars>>
    \/ EmbedReturn /\ UNCHANGED <<fnVars, ragVars, idVars, splitVars, parseVars, streamVars, indexVars, dataVars>>
    \/ UpsertStep /\ UNCHANGED <<embVars, docVars, fnVars, ragVars, idVars, splitVars, parseVars, streamVars, indexVars, dataVars>>
    \/ UpsertReturn /\ UNCHANGED <<embVars, upVars, fnVars, ragVars, idVars, splitVars, parseVars, streamVars, indexVars, dataVars>>

SpecProgress == InitProgress /\ [][NextProgress]_vars

\* C4: the percent values delivered to the progress sink in one run never
\* decrease, and the last one of a successful run is 100.
C4_ProgressMonotone ==
    /\ \A i \in 1..(Len(progress) - 1) : progress[i] <= progress[i + 1]
    /\ (pc = "done" /\ result.success) =>
            (progress # <<>> /\ progress[Len(progress)] = 100)

(***************************************************************************)
(* SpecFilter: _filter_by_similarity called on any list of candidates      *)
(***************************************************************************)
MaxCandidates == 2
MaxTail == 11

EmbedOff ==
    /\ texts = <<>> /\ batch_size = 1 /\ embed_workers = 1 /\ e_pc = "idle" /\ EmbedIdle

\* the metadata a candidate can carry
ScoreEntries == [score : {PyNone, PySome(0), PySome(10), PySome(30), PySome(90)},
                 similarity_score : {PyNone, PySome(10), PySome(90)}]
TailEntries == {[score |-> PySome(10), similarity_score |-> PyNone],
                [score |-> PyNone, similarity_score |-> PyNone]}

Candidates(entries) ==
    [i \in 1..Len(entries) |->
        [id |-> i, prefix |-> "a", rest |-> "", rel |-> 0,
         score |-> entries[i].score, similarity_score |-> entries[i].similarity_score]]

\* any short list of candidates, followed by any number of like candidates
FilterInputs ==
    {Candidates(h \o [i \in 1..n |-> t]) :
        h \in SeqsUpTo(ScoreEntries, MaxCandidates), n \in 0..MaxTail, t \in TailEntries}

InitFilter ==
    /\ IdOff /\ SplitOff /\ ParseOff /\ StreamOff /\ IndexOff /\ DataOff
    /\ f_pc = "filter"
    /\ f_docs \in FilterInputs
    /\ f_out = <<>>
    /\ threshold \in Thresholds
    /\ rag_k \in KValues
    /\ EmbedOff /\ UpsertOff /\ DocOff /\ RetrieveOff

NextFilter == FilterCall /\ UNCHANGED <<embVars, upVars, docVars, ragVars, idVars, splitVars, parseVars, streamVars, indexVars, dataVars>>

SpecFilter == InitFilter /\ [][NextFilter]_vars

\* the score a candidate reports: the entry 'score', else 'similarity_score'
Scored(d) == d.score # PyNone \/ d.similarity_score # PyNone
ReportedScore(d) == IF d.score # PyNone THEN d.score[1] ELSE d.similarity_score[1]
BelowThreshold(d) == Scored(d) /\ ReportedScore(d) < threshold

\* C6: when the positive threshold excludes every candidate, the filter
\* returns the first K candidates (K = the configured retrieval count) in
\* their original order; a non-empty candidate list never becomes empty.
\* (Stated for candidates whose reported score is above 0: a score of
\* exactly 0 is the matter of C7.)
C6_FallbackKeepsTopK ==
    f_pc = "filtered" =>
        /\ (threshold > 0 /\ f_docs # <<>>
                /\ \A i \in 1..Len(f_docs) :
                        BelowThreshold(f_docs[i]) /\ ReportedScore(f_docs[i]) > 0)
            => f_out = SubSeq(f_docs, 1, Min(rag_k, Len(f_docs)))
        /\ f_docs # <<>> => f_out # <<>>

\* C7: with a positive threshold that some candidate reaches, the output
\* holds no candidate whose reported score is below the threshold, a score
\* of exactly 0 included.
C7_NoneBelowThreshold ==
    f_pc = "filtered" =>
        ((threshold > 0
            /\ \E i \in 1..Len(f_docs) :
                    Scored(f_docs[i]) /\ ReportedScore(f_docs[i]) >= threshold)
         => \A j \in 1..Len(f_out) : ~BelowThreshold(f_out[j]))

(***************************************************************************)
(* SpecDedup: deduplicate_documents called on any list of documents        *)
(***************************************************************************)
MaxDocs == 4

\* page contents: three different 500-character prefixes, one of them
\* continued in two ways
Contents == {<<"a", "">>, <<"a", "x">>, <<"b", "">>, <<"c", "">>}

Documents(cs) ==
    [i \in 1..Len(cs) |->
        [id |-> i, prefix |-> cs[i][1], rest |-> cs[i][2], rel |-> 0,
         score |-> PyNone, similarity_score |-> PyNone]]

InitDedup ==
    /\ IdOff /\ SplitOff /\ ParseOff /\ StreamOff /\ IndexOff /\ DataOff
    /\ f_pc = "dedup"
    /\ f_docs \in {Documents(cs) : cs \in SeqsUpTo(Contents, MaxDocs)}
    /\ f_out = <<>>
    /\ threshold = 30
    /\ rag_k \in KValues
    /\ hash_fn \in HashFns
    /\ pinecone_batch_size = 1 /\ upsert_workers = 1 /\ u_pc = "idle" /\ UpsertIdle
    /\ EmbedOff /\ DocOff /\ RetrieveOff

NextDedup == DedupCall /\ UNCHANGED <<embVars, upVars, docVars, ragVars, idVars, splitVars, parseVars, streamVars, indexVars, dataVars>>

SpecDedup == InitDedup /\ [][NextDedup]_vars

\* the positions of f_docs whose key occurs at no earlier position
FirstByPrefix ==
    {i \in 1..Len(f_docs) : \A j \in 1..(i - 1) : Prefix500(f_docs[j]) # Prefix500(f_docs[i])}
FirstByHash ==
    {i \in 1..Len(f_docs) : \A j \in 1..(i - 1) : ContentHash(f_docs[j]) # ContentHash(f_docs[i])}

\* the documents at the positions S, in input order, cut after K
TopKAt(S) ==
    LET order == SortedSeq(S)
    IN  [n \in 1..Min(rag_k, Cardinality(S)) |-> f_docs[order[n]]]

\* C8 (as amended): deduplicate_documents returns exactly the first
\* occurrence of each distinct hash of the 500-character prefix, in input
\* order, cut after K; no two returned passages share a prefix.
C8_FirstOccurrencePerHash ==
    f_pc = "deduped" =>
        /\ f_out = TopKAt(FirstByHash)
        /\ Len(f_out) <= rag_k
        /\ \A i, j \in 1..Len(f_out) : i # j => Prefix500(f_out[i]) # Prefix500(f_out[j])

\* C8 witness: a list with two different passages of one prefix and more
\* distinct keys than K has been deduplicated and cut
C8_Witness ==
    /\ f_pc = "deduped"
    /\ \E i, j \in 1..Len(f_docs) :
            i < j /\ Prefix500(f_docs[i]) = Prefix500(f_docs[j]) /\ f_docs[i].rest # f_docs[j].rest
    /\ Cardinality(FirstByHash) > rag_k
    /\ Len(f_out) = rag_k

\* C8 as published: the first occurrence of each distinct 500-character
\* prefix, in input order, cut after K.
C8_FirstOccurrencePerPrefix ==
    f_pc = "deduped" =>
        /\ f_out = TopKAt(FirstByPrefix)
        /\ Len(f_out) <= rag_k
        /\ \A i, j \in 1..Len(f_out) : i # j => Prefix500(f_out[i]) # Prefix500(f_out[j])

(***************************************************************************)
(* SpecRetrieve: one call of retrieve_context                              *)
(***************************************************************************)
InitRetrieve ==
    /\ IdOff /\ SplitOff /\ ParseOff /\ StreamOff /\ IndexOff /\ DataOff
    /\ r_pc = "called"
    /\ has_retriever \in BOOLEAN
    /\ rag_enabled \in BOOLEAN
    /\ query_gen \in BOOLEAN
    /\ parallel_search \in BOOLEAN
    /\ RetrieveIdle
    /\ threshold = 30
    \* K at the small value, the one that makes deduplicate_documents cut
    /\ rag_k = 2
    /\ f_pc = "off" /\ f_docs = <<>> /\ f_out = <<>>
    /\ hash_fn \in IngestHashFns
    /\ pinecone_batch_size = 1 /\ upsert_workers = 1 /\ u_pc = "idle" /\ UpsertIdle
    /\ EmbedOff /\ DocOff

RetrieveStep ==
    \/ RetrieveContext
    \/ /\ r_pc = "queries"
       /\ \E rq, ra \in LlmResponses \cup {NoLlmCall} : GenerateQueries(rq, ra)
    \/ \E i \in 1..NumQueries : SearchStart(i)
    \/ \E i \in 1..NumQueries, a \in StoreAnswerPairs : SearchFinish(i, a[1], a[2])
    \/ \E i \in 1..NumQueries : SearchCollect(i)
    \/ \E a \in StoreAnswerPairs : SearchSequential(a[1], a[2])
    \/ \E a \in StoreAnswerPairs : SearchDirect(a[1], a[2])
    \/ \E a \in ScoreAnswers : SearchWithScore(a)

NextRetrieve == RetrieveStep /\ UNCHANGED <<embVars, upVars, docVars, fnVars, idVars, splitVars, parseVars, streamVars, indexVars, dataVars>>

SpecRetrieve == InitRetrieve /\ [][NextRetrieve]_vars

\* the store raised on invoke and on the retry for query i
BothRaised(i) == s_log[i][1] = Raise /\ s_log[i][2] = Raise
Searched == {i \in 1..NumQueries : s_st[i] \in {"finished", "collected"}}

\* C5 (as amended): a query for which the store raises on invoke and on the
\* retry contributes nothing; retrieve_context still returns, and the
\* passages found by the other queries are still among the collected ones
\* and make it return a context.
C5_FailedQueryContributesNothing ==
    /\ \A i \in Searched : BothRaised(i) => s_docs[i].docs = <<>>
    /\ r_pc = "done" =>
        /\ r_result.returned
        /\ \A i \in SearchCollected :
            s_docs[i].docs # <<>> =>
                /\ ~r_result.none
                /\ \A n \in 1..Len(s_docs[i].docs) :
                        \E m \in 1..Len(relevant_docs) : relevant_docs[m] = s_docs[i].docs[n]

\* C5 witness: a sequential run has returned a context although the store
\* raised twice for its second query
C5_Witness ==
    /\ r_pc = "done" /\ ~parallel_search /\ NumQueries = 2
    /\ BothRaised(2) /\ s_docs[1].docs # <<>>
    /\ ~r_result.none

\* C5 as published: a query during whose search the store raised
\* contributes nothing.
C5_RaisedQueryContributesNothing ==
    \A i \in Searched : s_log[i][1] = Raise => s_docs[i].docs = <<>>

\* C9: retrieve_context returns none exactly when retrieval is disabled or
\* the deduplicated passage set is empty; once any search step has found a
\* passage, it returns a non-empty context.
C9_NoneOnlyWhenNothingFound ==
    r_pc = "done" =>
        /\ r_result.none <=>
              (~has_retriever \/ ~rag_enabled \/ DeduplicateDocuments(relevant_docs, rag_k) = <<>>)
        /\ r_found => (~r_result.none /\ r_result.docs # <<>>)

\* C9 witness: a context was returned although every passage found was
\* scored below the threshold
C9_Witness ==
    /\ r_pc = "done" /\ r_found /\ threshold > 0
    /\ ~r_result.none
    /\ \A n \in 1..Len(r_result.docs) : BelowThreshold(r_result.docs[n])

\* C10: the passages of the returned context are in descending order of
\* relevance.
C10_DescendingRelevance ==
    (r_pc = "done" /\ ~r_result.none) =>
        \A i, j \in 1..Len(r_result.docs) :
            i < j => r_result.docs[i].rel >= r_result.docs[j].rel

\* retrieve_context has built its search set
SearchSetBuilt == has_retriever /\ rag_enabled /\ r_pc \notin {"called", "queries"}

\* C11: whatever query expansion came to (success, empty, failure, disabled),
\* the search set of retrieve_context contains the original message.
C11_SearchSetHasMessage ==
    SearchSetBuilt => \E i \in 1..Len(search_queries) : search_queries[i] = Message

\* C11 witness: a call has returned whose question expander succeeded with a
\* query other than the message, and the message leads the search set
C11_Witness ==
    /\ r_pc = "done" /\ query_gen /\ ~expansion_failed[1]
    /\ search_queries = <<Message, "q1">>

\* C12: the search set of retrieve_context contains no string twice.
C12_SearchSetNoDuplicates ==
    SearchSetBuilt =>
        \A i, j \in 1..Len(search_queries) : i # j => search_queries[i] # search_queries[j]

\* C13: when both expanders fail (the call raises, or the reply does not
\* parse to a list) or query generation is off, the search set is exactly
\* the original message.
C13_FailedExpansionSearchesMessage ==
    (SearchSetBuilt /\ (~query_gen \/ (expansion_failed[1] /\ expansion_failed[2])))
        => search_queries = <<Message>>

\* C13 witness: both expanders failed and the call returned a context found
\* with the message alone
C13_Witness ==
    /\ r_pc = "done" /\ query_gen
    /\ expansion_failed = <<TRUE, TRUE>>
    /\ ~r_result.none

\* C14: the direct search runs only after the multi-query search returned
\* no passage, and at most once; the similarity-with-score search runs only
\* after both returned no passage; no step runs once an earlier step has
\* found a passage.
C14_FallbackChainOrdered ==
    /\ Len(r_steps) <= 3
    /\ \A i \in 1..Len(r_steps) : r_steps[i].step = <<"multi", "direct", "score">>[i]
    /\ \A i, j \in 1..Len(r_steps) : i < j => r_steps[i].found = 0
    /\ r_pc \in {"direct", "score"} => \A i \in 1..Len(r_steps) : r_steps[i].found = 0

\* C14 witness: all three steps ran, and the last one found passages
C14_Witness ==
    /\ r_pc = "done" /\ Len(r_steps) = 3 /\ r_steps[3].found > 0
    /\ ~r_result.none

\* similarity = 1/(1+distance), in percent
SimilarityOfDistance(distance) == 100 \div (1 + distance)

\* C15: when the similarity-with-score fallback gets distances greater than
\* 1, every returned passage carries the score 1/(1+distance) of its
\* distance, and the passages are in ascending order of distance.
C15_DistanceConverted ==
    (r_pc = "done" /\ Len(r_steps) = 3 /\ score_results # <<>>
        /\ \A n \in 1..Len(score_results) : score_results[n][2] > 1)
    => /\ Len(relevant_docs) = Len(score_results)
       /\ \A n \in 1..Len(relevant_docs) :
            /\ relevant_docs[n].id = score_results[n][1].id
            /\ Scored(relevant_docs[n])
            /\ ReportedScore(relevant_docs[n]) = SimilarityOfDistance(score_results[n][2])
       /\ \A m, n \in 1..Len(score_results) :
            m < n => score_results[m][2] <= score_results[n][2]

\* the orders in which n searches can complete
CompletionOrders(n) == {f \in [1..n -> 1..n] : \A i, j \in 1..n : f[i] = f[j] => i = j}

\* what retrieve_context returns when the searches, with the answers they
\* got, complete in the order f
PassagesInOrder(f) ==
    DeduplicateDocuments(Concat([k \in 1..NumQueries |-> s_docs[f[k]].docs]), rag_k)

PassageSet(docs) == {docs[k] : k \in 1..Len(docs)}

\* C38: when retrieve_context returns what the parallel searches found, the
\* set of passages is the one any other completion order of the same
\* searches, with the same answers, would have given
C38_CompletionOrderIrrelevant ==
    (/\ r_pc = "done" /\ parallel_search /\ NumQueries > 1
     /\ Len(r_steps) = 1 /\ r_steps[1].step = "multi"
     /\ \A i \in 1..NumQueries : s_st[i] = "collected") =>
        \A f \in CompletionOrders(NumQueries) :
            PassageSet(PassagesInOrder(f)) = PassageSet(r_result.docs)

(***************************************************************************)
(* SpecReingest: two uploads one after the other, the second possibly      *)
(* after a restart of the server process                                   *)
(***************************************************************************)
Filenames == {"f", "g"}

UploadOf(filename, cs) == [filename |-> filename, chunks |-> cs]

Uploads == {UploadOf(fn, cs) : fn \in Filenames, cs \in SeqsUpTo(Texts, MaxChunks) \ {<<>>}}

\* hash() of a str is salted with a key drawn when the interpreter starts
ProcessHashFns == {f \in HashFns : f["c"] = "h3"}

IdsOf(vs) == {vs[k].id : k \in 1..Len(vs)}

\* process_document for the next upload, from the chunks on: the chunk
\* records, their embeddings, prepare_vectors, and the write of every vector
\* (the store keeps one entry per id)
IngestUpload ==
    /\ Len(prepared) < Len(uploads)
    /\ LET up == uploads[Len(prepared) + 1]
           docs == ChunkRecords(up.chunks, up.filename)
           vs == PrepareVectors(docs, EmbedDocuments(up.chunks), up.filename)
       IN  /\ chunks' = up.chunks
           /\ documents' = docs
           /\ vectors' = vs
           /\ prepared' = Append(prepared, vs)
           /\ store' = store \cup IdsOf(vs)
    /\ UNCHANGED <<uploads, restarted, hash_fn>>
    /\ UNCHANGED <<pc, file_ext, progress, started, failed, result>>
    /\ UNCHANGED <<pinecone_batch_size, upsert_workers, u_pc, u_st, u_res, u_pending,
                   upserted_count, u_error>>

\* the server stops and starts again between the two uploads: the module
\* globals are rebuilt and hash() gets a new key; the store is external and
\* keeps its entries
RestartProcess ==
    /\ Len(prepared) = 1
    /\ ~restarted
    /\ restarted' = TRUE
    /\ hash_fn' \in ProcessHashFns
    /\ chunks' = <<>> /\ documents' = <<>> /\ vectors' = <<>>
    /\ UNCHANGED <<uploads, prepared, store>>
    /\ UNCHANGED <<pc, file_ext, progress, started, failed, result>>
    /\ UNCHANGED <<pinecone_batch_size, upsert_workers, u_pc, u_st, u_res, u_pending,
                   upserted_count, u_error>>

InitReingest ==
    /\ uploads \in [1..2 -> Uploads]
    /\ prepared = <<>>
    /\ restarted = FALSE
    /\ hash_fn \in ProcessHashFns
    /\ pinecone_batch_size = 1 /\ upsert_workers = 1 /\ u_pc = "idle" /\ UpsertIdle
    /\ EmbedOff /\ DocOff /\ RagOff /\ SplitOff /\ ParseOff /\ StreamOff /\ IndexOff /\ DataOff

NextReingest ==
    \/ IngestUpload /\ UNCHANGED <<embVars, fnVars, ragVars, splitVars, parseVars, streamVars, indexVars, dataVars>>
    \/ RestartProcess /\ UNCHANGED <<embVars, fnVars, ragVars, splitVars, parseVars, streamVars, indexVars, dataVars>>

SpecReingest == InitReingest /\ [][NextReingest]_vars

\* C17: ingesting the same document (same filename, same chunks) a second
\* time prepares the same set of vector ids as the first time, so that the
\* store holds no entry beyond those of the first ingestion, also when the
\* second ingestion runs in a new process
C17_ReingestSameIds ==
    (Len(prepared) = 2 /\ uploads[1] = uploads[2]) =>
        /\ IdsOf(prepared[2]) = IdsOf(prepared[1])
        /\ store = IdsOf(prepared[1])

\* the identity of a prepared vector: document, chunk index, chunk text
PreparedKeys ==
    {mk \in (1..2) \X (1..MaxChunks) :
        mk[1] <= Len(prepared) /\ mk[2] <= Len(prepared[mk[1]])}

KeyOf(mk) == <<uploads[mk[1]].filename, prepared[mk[1]][mk[2]].chunk_index,
               prepared[mk[1]][mk[2]].text>>

\* C18: two prepared vectors that differ in document identifier, chunk
\* index or chunk text never have the same vector id
C18_DistinctContentDistinctIds ==
    \A x, y \in PreparedKeys :
        KeyOf(x) # KeyOf(y) => prepared[x[1]][x[2]].id # prepared[y[1]][y[2]].id

\* C19: in the chunk records of one document, the record at position k
\* (from 0) has chunk_index k, every chunk_index lies in 0..total_chunks-1,
\* and total_chunks is the number of records in every one of them
C19_ChunkIndexRange ==
    \A k \in 1..Len(documents) :
        /\ documents[k].chunk_index = k - 1
        /\ 0 <= documents[k].chunk_index
        /\ documents[k].chunk_index < documents[k].total_chunks
        /\ documents[k].total_chunks = Len(documents)
        /\ documents[k].text = chunks[k]

C19_Witness ==
    /\ Len(prepared) = 1
    /\ Len(documents) = MaxChunks
    /\ documents[MaxChunks].chunk_index = MaxChunks - 1

(***************************************************************************)
(* DocumentService.text_splitter: RecursiveCharacterTextSplitter with the  *)
(* separators of __init__, and split_text(content)                         *)
(* A text is a sequence of characters.                                     *)
(***************************************************************************)
MaxContent == 5

Chars == {"x", ".", " ", "\n"}

\* separators=["\n\n", "\n", ". ", " "]
Separators == << <<"\n", "\n">>, <<"\n">>, <<".", " ">>, <<" ">> >>

Whitespace == {" ", "\n"}

\* str.strip()
RECURSIVE LStrip(_)
LStrip(text) ==
    IF text # <<>> /\ Head(text) \in Whitespace THEN LStrip(Tail(text)) ELSE text

RECURSIVE RStrip(_)
RStrip(text) ==
    IF text # <<>> /\ text[Len(text)] \in Whitespace
    THEN RStrip(SubSeq(text, 1, Len(text) - 1))
    ELSE text

StripWhitespace(text) == RStrip(LStrip(text))

\* the positions at which separator occurs in text
Matches(separator, text) ==
    {i \in 1..(Len(text) - Len(separator) + 1) :
        SubSeq(text, i, i + Len(separator) - 1) = separator}

\* re.search(_separator, text)
Occurs(separator, text) == Matches(separator, text) # {}

\* re.split(f"({separator})", text) without the separators themselves: the
\* pieces between the leftmost non-overlapping occurrences
RECURSIVE Pieces(_, _)
Pieces(text, separator) ==
    IF ~Occurs(separator, text) THEN <<text>>
    ELSE LET i == CHOOSE j \in Matches(separator, text) :
                     \A k \in Matches(separator, text) : j <= k
         IN  <<SubSeq(text, 1, i - 1)>> \o
             Pieces(SubSeq(text, i + Len(separator), Len(text)), separator)

\* _split_text_with_regex(text, separator, keep_separator=True): every piece
\* but the first carries the separator in front; empty pieces are dropped
SplitTextWithRegex(text, separator) ==
    LET ps == Pieces(text, separator)
        splits == [k \in 1..Len(ps) |-> IF k = 1 THEN ps[1] ELSE separator \o ps[k]]
    IN  SelectSeq(splits, LAMBDA piece : piece # <<>>)

\* _join_docs(docs, ""): the pieces joined and stripped; <<>> stands for None
JoinDocs(docs) == StripWhitespace(Concat(docs))

\* the while loop of _merge_splits: pieces leave current_doc from the front
\* until what is left fits the overlap and leaves room for the next piece
RECURSIVE DropFront(_, _, _)
DropFront(current_doc, total, len) ==
    IF total > chunk_overlap \/ (total + len > chunk_size /\ total > 0)
    THEN DropFront(Tail(current_doc), total - Len(Head(current_doc)), len)
    ELSE [current_doc |-> current_doc, total |-> total]

\* the for loop of _merge_splits(splits, "") and its last _join_docs
RECURSIVE MergeLoop(_, _, _, _)
MergeLoop(splits, docs, current_doc, total) ==
    IF splits = <<>>
    THEN IF JoinDocs(current_doc) = <<>> THEN docs
         ELSE Append(docs, JoinDocs(current_doc))
    ELSE LET d == Head(splits)
             len == Len(d)
         IN  IF total + len > chunk_size /\ current_doc # <<>>
             THEN LET docs2 == IF JoinDocs(current_doc) = <<>> THEN docs
                               ELSE Append(docs, JoinDocs(current_doc))
                      kept == DropFront(current_doc, total, len)
                  IN  MergeLoop(Tail(splits), docs2, Append(kept.current_doc, d),
                                kept.total + len)
             ELSE MergeLoop(Tail(splits), docs, Append(current_doc, d), total + len)

MergeSplits(splits) == MergeLoop(splits, <<>>, <<>>, 0)

RECURSIVE SplitTextRec(_, _)
RECURSIVE SplitLoop(_, _, _, _)

\* the for loop of _split_text over the splits: a piece shorter than
\* chunk_size waits in _good_splits to be merged; any other piece is split
\* again with the separators that are left, or, when none is left, becomes a
\* chunk as it is
SplitLoop(splits, new_separators, good_splits, final_chunks) ==
    IF splits = <<>>
    THEN IF good_splits # <<>> THEN final_chunks \o MergeSplits(good_splits)
         ELSE final_chunks
    ELSE LET piece == Head(splits)
         IN  IF Len(piece) < chunk_size
             THEN SplitLoop(Tail(splits), new_separators, Append(good_splits, piece),
                            final_chunks)
             ELSE LET merged == IF good_splits # <<>>
                                THEN final_chunks \o MergeSplits(good_splits)
                                ELSE final_chunks
                      other == IF new_separators = <<>> THEN <<piece>>
                               ELSE SplitTextRec(piece, new_separators)
                  IN  SplitLoop(Tail(splits), new_separators, <<>>, merged \o other)

\* _split_text(text, separators): the first separator that occurs in the
\* text is used, the last one when none occurs
SplitTextRec(text, separators) ==
    LET found == {i \in 1..Len(separators) : Occurs(separators[i], text)}
        first == IF found = {} THEN 0
                 ELSE CHOOSE i \in found : \A j \in found : i <= j
        separator == IF first = 0 THEN separators[Len(separators)] ELSE separators[first]
        new_separators == IF first = 0 THEN <<>>
                          ELSE SubSeq(separators, first + 1, Len(separators))
    IN  SplitLoop(SplitTextWithRegex(text, separator), new_separators, <<>>, <<>>)

\* self.text_splitter.split_text(content)
SplitText(text) == SplitTextRec(text, Separators)

\* RecursiveCharacterTextSplitter(chunk_size=..., chunk_overlap=...): the
\* constructor raises ValueError when chunk_overlap > chunk_size
NewSplitter ==
    /\ sp_pc = "new"
    /\ sp_pc' = IF chunk_overlap > chunk_size THEN "rejected" ELSE "ready"
    /\ UNCHANGED <<content, chunk_size, chunk_overlap, chunks, documents>>

\* chunks = self.text_splitter.split_text(content) and the chunk records
SplitContent ==
    /\ sp_pc = "ready"
    /\ sp_pc' = "split"
    /\ chunks' = SplitText(content)
    /\ documents' = ChunkRecords(chunks', Filename)
    /\ UNCHANGED <<content, chunk_size, chunk_overlap>>

(***************************************************************************)
(* SpecSplit: one text split under one configuration                       *)
(***************************************************************************)
ChunkSizes == {2, 3}
ChunkOverlaps == {0, 1, 3}

InitSplit ==
    /\ sp_pc = "new"
    /\ content \in SeqsUpTo(Chars, MaxContent) \ {<<>>}
    /\ chunk_size \in ChunkSizes
    /\ chunk_overlap \in ChunkOverlaps
    /\ EmbedOff /\ UpsertOff /\ DocOff /\ RagOff /\ IdOff /\ ParseOff /\ StreamOff /\ IndexOff /\ DataOff

NextSplit ==
    \/ NewSplitter /\ UNCHANGED <<pc, file_ext, progress, started, failed, result>>
                   /\ UNCHANGED <<embVars, upVars, fnVars, ragVars, idVars, parseVars, streamVars, indexVars, dataVars>>
    \/ SplitContent /\ UNCHANGED <<pc, file_ext, progress, started, failed, result>>
                    /\ UNCHANGED <<embVars, upVars, fnVars, ragVars, idVars, parseVars, streamVars, indexVars, dataVars>>

SpecSplit == InitSplit /\ [][NextSplit]_vars

\* C20: every chunk split_text produces is at most chunk_size characters
\* long, whatever the text, a run longer than chunk_size that contains none
\* of the configured separators included
C20_ChunkWithinSize ==
    sp_pc = "split" => \A k \in 1..Len(chunks) : Len(chunks[k]) <= chunk_size

\* a chunk without its first chunk_overlap characters
WithoutOverlap(chunk) == SubSeq(chunk, chunk_overlap + 1, Len(chunk))

\* the chunks put together again: the first one whole, every later one
\* without its overlap
Reassembled ==
    IF chunks = <<>> THEN <<>>
    ELSE chunks[1] \o Concat([k \in 1..(Len(chunks) - 1) |-> WithoutOverlap(chunks[k + 1])])

\* C21: for every text and every configuration with chunk_overlap <
\* chunk_size, the chunks concatenated after the overlap is removed from each
\* chunk but the first are the original text
C21_RoundTrip ==
    (sp_pc = "split" /\ chunk_overlap < chunk_size) => Reassembled = content

\* C22: a configuration with chunk_overlap >= chunk_size, the equal case
\* included, is rejected when the splitter is built: the service never gets
\* a splitter and no text is split under it
C22_OverlapNotBelowSizeRejected ==
    chunk_overlap >= chunk_size => sp_pc \in {"new", "rejected"}

(***************************************************************************)
(* DocumentParser: parse_docx, and parse_pdf for a file of one page        *)
(*                                                                         *)
(* A file is its elements in document order: "p" a paragraph with text,    *)
(* "tbl" a table with data, "img" an image.  Image k is the k-th image of  *)
(* the body.  The returned content is kept part by part; a part names the  *)
(* element it comes from.                                                  *)
(***************************************************************************)
MaxBody == 3

ElemKinds == {"p", "tbl", "img"}

Part(kind, elem, image) == [kind |-> kind, elem |-> elem, image |-> image]

\* the body positions of the images, in document order
ImagePositions(body) == SortedSeq({i \in 1..Len(body) : body[i] = "img"})

NumImages(f) == Len(ImagePositions(f.body))

ParseFiles ==
    {f \in [kind : {"docx", "pdf"}, opens : BOOLEAN, body : SeqsUpTo(ElemKinds, MaxBody),
            scan : BOOLEAN, extract : SeqsUpTo(BOOLEAN, MaxBody)] :
        Len(f.extract) = NumImages(f)}

PartsOfKind(body, kind) ==
    LET idx == SortedSeq({i \in 1..Len(body) : body[i] = kind})
    IN  [k \in 1..Len(idx) |-> Part(kind, idx[k], 0)]

\* parse_docx: for idx, element in enumerate(doc.element.body): a paragraph
\* or a table is appended where it stands
DocxElementParts(body) ==
    LET idx == SortedSeq({i \in 1..Len(body) : body[i] # "img"})
    IN  [k \in 1..Len(idx) |-> Part(body[idx[k]], idx[k], 0)]

\* parse_pdf, one page: page.extract_text() first, then every table of
\* page.extract_tables()
PdfPageParts(body) == PartsOfKind(body, "p") \o PartsOfKind(body, "tbl")

\* an entry of image_descriptions for image n
ImageEntry(f, n, kind) == Part(kind, ImagePositions(f.body)[n], n)

\* no entry for an image whose bytes cannot be read
NoExtractionErrors(f) == <<>>

\* except Exception as e: image_descriptions.append(f"Image {n}: [Error
\* extracting image: ...]") inside the loop over the images
ExtractionErrors(f) ==
    LET unread == SortedSeq({n \in 1..NumImages(f) : ~f.extract[n]})
    IN  [k \in 1..Len(unread) |-> ImageEntry(f, unread[k], "error_extracting")]

\* image_data_list.append((image_count, image_base64))
ImageDataList(f) == SortedSeq({n \in 1..NumImages(f) : f.extract[n]})

\* parse_pdf's fallback: one entry with the coordinates per pdfplumber image
CoordinateEntries(f) == [n \in 1..NumImages(f) |-> ImageEntry(f, n, "coordinates")]

\* [Image extraction error on page ...]
PageError == Part("page_error", 0, 0)

\* process_image / process_pdf_image: the description, or the marker built
\* in its except clause
ProcessImage(f, n, ok) ==
    ImageEntry(f, n, IF ok THEN "description" ELSE "error_processing")

NoImageResult == Part("none", 0, 0)

\* for image_num in sorted(image_results.keys()): image_descriptions.append(...)
RECURSIVE SortedByImage(_)
SortedByImage(entries) ==
    IF entries = <<>> THEN <<>>
    ELSE LET least == CHOOSE i \in 1..Len(entries) :
                          \A j \in 1..Len(entries) : entries[i].image <= entries[j].image
         IN  <<entries[least]>> \o
             SortedByImage(SubSeq(entries, 1, least - 1) \o
                           SubSeq(entries, least + 1, Len(entries)))

\* the parser returns: the parts, and the [IMAGES] block after them when
\* there is any entry
ParserReturn(parts, descriptions) ==
    /\ image_descriptions' = descriptions
    /\ d_out' = parts \o descriptions
    /\ d_pc' = "returned"

NumImageTasks == Len(i_st)
ImagesRunning == {t \in 1..NumImageTasks : i_st[t] = "running"}
ImagesQueued == {t \in 1..NumImageTasks : i_st[t] = "queued"}

\* max_workers = min(len(image_data_list), settings.DOCUMENT_IMAGE_EXTRACTION_PARALLEL_WORKERS)
ImageMaxWorkers == Min(Len(image_data_list), image_workers)

\* the parser from its call to the submission of the images: the file is
\* opened, the paragraphs and tables are collected, the images are read
ParseStart ==
    /\ d_pc = "called"
    /\ IF ~d_file.opens
       THEN /\ d_pc' = "raised"
            /\ UNCHANGED <<image_data_list, i_st, i_res, image_descriptions,
                           content_parts, d_out>>
       ELSE LET f == d_file
                parts == IF f.kind = "docx" THEN DocxElementParts(f.body)
                         ELSE PdfPageParts(f.body)
                data == ImageDataList(f)
            IN  /\ content_parts' = parts
                /\ IF f.kind = "pdf" /\ NumImages(f) = 0
                   THEN \* if images: is false, the extraction is not called
                        /\ ParserReturn(parts, <<>>)
                        /\ UNCHANGED <<image_data_list, i_st, i_res>>
                   ELSE IF ~f.scan
                   THEN \* docx: doc.part.rels raises, nothing was counted yet;
                        \* pdf: fitz.open raises and the outer except adds its marker
                        /\ ParserReturn(parts, IF f.kind = "docx" THEN <<>> ELSE <<PageError>>)
                        /\ UNCHANGED <<image_data_list, i_st, i_res>>
                   ELSE IF data = <<>>
                   THEN \* docx: "No images found", the markers are returned;
                        \* pdf: the coordinates fallback follows the markers
                        /\ ParserReturn(parts,
                                IF f.kind = "docx" THEN ExtractionErrors(f)
                                ELSE ExtractionErrors(f) \o CoordinateEntries(f))
                        /\ UNCHANGED <<image_data_list, i_st, i_res>>
                   ELSE /\ d_pc' = "images"
                        /\ image_data_list' = data
                        /\ i_st' = [t \in 1..Len(data) |-> "queued"]
                        /\ i_res' = [t \in 1..Len(data) |-> NoImageResult]
                        /\ image_descriptions' = ExtractionErrors(f)
                        /\ UNCHANGED d_out
    /\ UNCHANGED <<d_file, image_workers, image_results>>

\* a pool thread takes the next image off the queue
ImageWorkerStart(t) ==
    /\ d_pc = "images"
    /\ t \in ImagesQueued
    /\ \A u \in ImagesQueued : t <= u
    /\ Cardinality(ImagesRunning) < ImageMaxWorkers
    /\ i_st' = [i_st EXCEPT ![t] = "running"]
    /\ UNCHANGED <<d_pc, d_file, image_workers, image_data_list, i_res, image_results,
                   image_descriptions, content_parts, d_out>>

\* process_image: the vision call returns or throws
ImageWorkerFinish(t, ok) ==
    /\ d_pc = "images"
    /\ i_st[t] = "running"
    /\ i_st' = [i_st EXCEPT ![t] = "finished"]
    /\ i_res' = [i_res EXCEPT ![t] = ProcessImage(d_file, image_data_list[t], ok)]
    /\ UNCHANGED <<d_pc, d_file, image_workers, image_data_list, image_results,
                   image_descriptions, content_parts, d_out>>

\* one iteration of "for future in as_completed(future_to_image)":
\* image_results[result_image_num] = description
ImageCollect(t) ==
    /\ d_pc = "images"
    /\ i_st[t] = "finished"
    /\ i_st' = [i_st EXCEPT ![t] = "collected"]
    /\ image_results' = Append(image_results, i_res[t])
    /\ UNCHANGED <<d_pc, d_file, image_workers, image_data_list, i_res,
                   image_descriptions, content_parts, d_out>>

\* the pool is left, the results are combined after the markers that are
\* already in image_descriptions, and the parser returns
ImagesDone ==
    /\ d_pc = "images"
    /\ \A t \in 1..NumImageTasks : i_st[t] = "collected"
    /\ ParserReturn(content_parts, image_descriptions \o SortedByImage(image_results))
    /\ UNCHANGED <<d_file, image_workers, image_data_list, i_st, i_res, image_results,
                   content_parts>>

(***************************************************************************)
(* SpecParse: one file parsed                                              *)
(***************************************************************************)
InitParse ==
    /\ d_pc = "called"
    /\ d_file \in ParseFiles
    /\ image_workers \in 1..MaxWorkers
    /\ ParseIdle
    /\ EmbedOff /\ UpsertOff /\ DocOff /\ RagOff /\ IdOff /\ SplitOff /\ StreamOff /\ IndexOff /\ DataOff

ParseStep ==
    \/ ParseStart
    \/ \E t \in 1..NumImageTasks : ImageWorkerStart(t)
    \/ \E t \in 1..NumImageTasks, ok \in BOOLEAN : ImageWorkerFinish(t, ok)
    \/ \E t \in 1..NumImageTasks : ImageCollect(t)
    \/ ImagesDone

NextParse ==
    ParseStep /\ UNCHANGED <<embVars, upVars, docVars, fnVars, ragVars, idVars, splitVars, streamVars, indexVars, dataVars>>

SpecParse == InitParse /\ [][NextParse]_vars

\* the entries of the returned content that belong to image n
EntriesOf(n) == {i \in 1..Len(d_out) : d_out[i].image = n}

\* image n has its bytes and its description call succeeded
Described(n) ==
    /\ d_file.extract[n]
    /\ \E t \in 1..NumImageTasks :
          image_data_list[t] = n /\ i_res[t].kind = "description"

ErrorMarkers == {"error_extracting", "error_processing"}

\* C25: when the parser has read a file that opens and whose image scan
\* works, it has returned (not raised), every paragraph and table is in the
\* returned content, every image whose extraction and description worked
\* has its description there, and every image for which one of the two
\* failed has an error marker and no description there
C25_ImageFailureDegrades ==
    (d_file.opens /\ d_file.scan /\ d_pc \notin {"called", "images"}) =>
        /\ d_pc = "returned"
        /\ \A i \in 1..Len(d_file.body) :
              d_file.body[i] # "img" => \E j \in 1..Len(d_out) : d_out[j].elem = i
        /\ \A n \in 1..NumImages(d_file) :
              IF Described(n)
              THEN \E j \in EntriesOf(n) : d_out[j].kind = "description"
              ELSE /\ \E j \in EntriesOf(n) : d_out[j].kind \in ErrorMarkers
                   /\ \A j \in EntriesOf(n) : d_out[j].kind # "description"

C25_Witness ==
    /\ d_pc = "returned" /\ d_file.opens /\ d_file.scan
    /\ \E n, k \in 1..NumImages(d_file) :
          /\ Described(n)
          /\ ~Described(k) /\ d_file.extract[k]
    /\ \E n \in 1..NumImages(d_file) : ~d_file.extract[n]

\* C26: the image entries of a parse result stand in ascending image index
C26_ImageEntriesAscending ==
    d_pc = "returned" =>
        \A i, j \in 1..Len(d_out) :
            (i < j /\ d_out[i].image > 0 /\ d_out[j].image > 0)
                => d_out[i].image <= d_out[j].image

\* C27: the returned content keeps the elements in document order
C27_DocumentOrderKept ==
    d_pc = "returned" =>
        \A i, j \in 1..Len(d_out) :
            (i < j /\ d_out[i].elem > 0 /\ d_out[j].elem > 0)
                => d_out[i].elem <= d_out[j].elem

(***************************************************************************)
(* routers/documents.py: upload_document, the generator                    *)
(* process_with_streaming, and the thread that runs process_document       *)
(***************************************************************************)
\* the events process_document has put on progress_queue
QueueEvents == IF Len(progress) >= 3 THEN Len(progress) - 3 ELSE 0

\* the generator is suspended at a yield, or was never started
GeneratorOpen == g_pc \in {"unstarted", "start_events", "loop", "loop_yield",
                           "joining", "final_yield"}

\* finally: if tmp_path and os.path.exists(tmp_path): os.unlink(tmp_path)
CleanUp == tmp_file' = "deleted"

\* upload_document: the suffix check (HTTP 400 before anything is stored),
\* the temporary copy, and the StreamingResponse around the generator
ReceiveUpload ==
    /\ pc = "upload"
    /\ IF file_ext \notin ALLOWED_EXTENSIONS
       THEN pc' = "rejected" /\ UNCHANGED <<tmp_file, g_pc>>
       ELSE pc' = "received" /\ tmp_file' = "exists" /\ g_pc' = "unstarted"
    /\ UNCHANGED <<file_ext, progress, chunks, documents, started, failed, result>>
    /\ UNCHANGED <<client, g_sent>>

\* the client closes the connection
ClientDisconnect ==
    /\ client = "connected"
    /\ GeneratorOpen
    /\ client' = "gone"
    /\ UNCHANGED <<tmp_file, g_pc, g_sent, docVars>>

\* the server iterates the generator: the start event and the two events
\* that follow it
GeneratorStart ==
    /\ g_pc = "unstarted"
    /\ g_pc' = "start_events"
    /\ progress' = progress \o <<0, 5, 10>>
    /\ UNCHANGED <<pc, file_ext, chunks, documents, started, failed, result>>
    /\ UNCHANGED <<tmp_file, client, g_sent>>

\* process_thread.start(), and the generator enters its while loop
ThreadStart ==
    /\ g_pc = "start_events"
    /\ g_pc' = "loop"
    /\ pc' = "idle"
    /\ UNCHANGED <<file_ext, progress, chunks, documents, started, failed, result>>
    /\ UNCHANGED <<tmp_file, client, g_sent>>

\* event = progress_queue.get(timeout=0.1); yield ...   (also the yield of
\* the draining loop)
LoopYield ==
    /\ g_pc = "loop"
    /\ g_sent < QueueEvents
    /\ g_sent' = g_sent + 1
    /\ g_pc' = "loop_yield"
    /\ UNCHANGED <<tmp_file, client, docVars>>

\* the server asks for the next event
LoopResume ==
    /\ g_pc = "loop_yield"
    /\ g_pc' = "loop"
    /\ UNCHANGED <<tmp_file, client, g_sent, docVars>>

\* a loop that ends as soon as processing_done is set
LoopExitWhenDone ==
    /\ g_pc = "loop"
    /\ pc = "done"
    /\ g_pc' = "final_yield"
    /\ UNCHANGED <<tmp_file, client, g_sent, docVars>>

\* processing_done is set and the queue is empty: the loop ends,
\* process_thread.join() returns, and the complete or error event is yielded
LoopExit ==
    /\ g_pc = "loop"
    /\ pc = "done"
    /\ g_sent = QueueEvents
    /\ g_pc' = "final_yield"
    /\ UNCHANGED <<tmp_file, client, g_sent, docVars>>

\* the server asks for more after the last event: the generator ends
\* through its finally clause
GeneratorFinish ==
    /\ g_pc = "final_yield"
    /\ g_pc' = "closed"
    /\ CleanUp
    /\ UNCHANGED <<client, g_sent, docVars>>

\* the response is cancelled before the generator was ever iterated: its
\* body, the finally clause included, never runs
DropUnstarted ==
    /\ client = "gone"
    /\ g_pc = "unstarted"
    /\ g_pc' = "dropped"
    /\ UNCHANGED tmp_file
    /\ UNCHANGED <<client, g_sent, docVars>>

\* the generator is closed while it is suspended at a yield that is not
\* inside a bare except: GeneratorExit reaches the finally clause
CloseAtYield ==
    /\ client = "gone"
    /\ g_pc \in {"start_events", "final_yield"}
    /\ g_pc' = "closed"
    /\ CleanUp
    /\ UNCHANGED <<client, g_sent, docVars>>

\* the task is cancelled at "await asyncio.sleep(0.05)": the bare except
\* of the loop catches the CancelledError and breaks
CancelInLoop ==
    /\ client = "gone"
    /\ g_pc = "loop"
    /\ pc # "done"
    /\ g_sent = QueueEvents
    /\ g_pc' = "joining"
    /\ UNCHANGED <<tmp_file, client, g_sent, docVars>>

\* a generator that goes on without waiting for the thread
JoinWithoutWaiting ==
    /\ g_pc = "joining"
    /\ g_pc' = "final_yield"
    /\ UNCHANGED <<tmp_file, client, g_sent, docVars>>

\* process_thread.join() returns when process_document has returned
Join ==
    /\ g_pc = "joining"
    /\ pc = "done"
    /\ g_pc' = "final_yield"
    /\ UNCHANGED <<tmp_file, client, g_sent, docVars>>

\* the generator is closed while it is suspended at a yield of the loop:
\* the bare except catches GeneratorExit, the generator goes on to its next
\* yield, the close fails with "async generator ignored GeneratorExit" and
\* the generator is given up where it stands
CloseAtLoopYield ==
    /\ client = "gone"
    /\ g_pc = "loop_yield"
    /\ g_pc' = "abandoned"
    /\ UNCHANGED tmp_file
    /\ UNCHANGED <<client, g_sent, docVars>>

StreamStep ==
    \/ ReceiveUpload
    \/ ClientDisconnect
    \/ GeneratorStart
    \/ ThreadStart
    \/ LoopYield
    \/ LoopResume
    \/ LoopExit
    \/ GeneratorFinish
    \/ DropUnstarted
    \/ CloseAtYield
    \/ CancelInLoop
    \/ Join
    \/ CloseAtLoopYield

\* process_document in its thread
PipelineStep ==
    \/ ProcessDocument /\ pc = "idle" /\ UNCHANGED <<embVars, upVars, fnVars, ragVars, idVars, splitVars, parseVars>>
    \/ \E d \in TxtFiles : Parse(d) /\ UNCHANGED <<embVars, upVars, fnVars, ragVars, idVars, splitVars, parseVars>>
    \/ \E n \in 0..MaxChunks, ok \in BOOLEAN :
            Chunk([k \in 1..n |-> "a"], ok) /\ UNCHANGED <<embVars, upVars, fnVars, ragVars, idVars, splitVars, parseVars>>
    \/ \E gi \in GetIndexOutcomes : GetIndex(gi) /\ UNCHANGED <<upVars, fnVars, ragVars, idVars, splitVars, parseVars>>
    \/ EmbedStep /\ UNCHANGED <<upVars, docVars, fnVars, ragVars, idVars, splitVars, parseVars>>
    \/ EmbedReturn /\ UNCHANGED <<fnVars, ragVars, idVars, splitVars, parseVars>>
    \/ UpsertStep /\ UNCHANGED <<embVars, docVars, fnVars, ragVars, idVars, splitVars, parseVars>>
    \/ UpsertReturn /\ UNCHANGED <<embVars, upVars, fnVars, ragVars, idVars, splitVars, parseVars>>

(***************************************************************************)
(* SpecUpload: one upload request, a client that may go away at any time   *)
(***************************************************************************)
InitUpload ==
    /\ pc = "upload"
    /\ file_ext \in {".txt", ".md"}
    /\ DocIdle
    /\ texts = <<>> /\ e_pc = "idle" /\ EmbedIdle
    /\ batch_size = MaxBatchSize
    /\ embed_workers = 1
    /\ pinecone_batch_size = MaxBatchSize
    /\ upsert_workers = 1
    /\ hash_fn = [x \in HashDomain |-> "h1"]
    /\ u_pc = "idle" /\ UpsertIdle
    /\ tmp_file = "none" /\ client = "connected" /\ g_pc = "none" /\ g_sent = 0
    /\ RagOff /\ IdOff /\ SplitOff /\ ParseOff /\ IndexOff /\ DataOff

NextUpload ==
    \/ StreamStep /\ UNCHANGED <<embVars, upVars, fnVars, ragVars, idVars, splitVars, parseVars, indexVars, dataVars>>
    \/ PipelineStep /\ UNCHANGED <<streamVars, indexVars, dataVars>>

SpecUpload == InitUpload /\ [][NextUpload]_vars

\* the upload is over: the request was refused, or the generator will not
\* run any further
UploadOver == pc = "rejected" \/ g_pc \in {"closed", "dropped", "abandoned"}

\* C28: when an upload is over, whichever way it ended, the temporary copy
\* of the uploaded bytes does not exist any more
C28_TemporaryFileReleased == UploadOver => tmp_file # "exists"

\* the complete or error event has been yielded
TerminalEventSent == g_pc \in {"final_yield", "closed"} /\ pc = "done"

\* C34 as stated: whenever the terminal event is yielded, the processing
\* thread has finished and every event it put on the queue was yielded
\* before, once and in queue order
C34_EveryEventBeforeTerminal ==
    g_pc = "final_yield" => (pc = "done" /\ g_sent = QueueEvents)

\* C34: no more events are yielded than were put on the queue, and while
\* the client stays connected the terminal event is yielded only after the
\* processing thread has finished and every queued event was yielded, once
\* and in queue order
C34_EveryEventBeforeTerminalWhileConnected ==
    /\ g_sent <= QueueEvents
    /\ (client = "connected" /\ g_pc \in {"final_yield", "closed"}) =>
            (pc = "done" /\ g_sent = QueueEvents)

\* a connected client has received the events of a successful ingestion
C34_Witness ==
    /\ client = "connected" /\ g_pc = "closed"
    /\ result.returned /\ result.success
    /\ g_sent = QueueEvents /\ g_sent >= 2

\* if result.get("success"): the complete event, else the error event with
\* result.get('error', ...)
TerminalEvent ==
    IF result.success THEN [type |-> "complete", error |-> NoException]
    ELSE [type |-> "error", error |-> result.error]

\* C35: the event that ends the stream is 'complete' for an ingestion that
\* succeeded and 'error' with the failure otherwise; an ingestion of which
\* a stage, a provider call or a batch write failed never ends with
\* 'complete'
C35_TerminalEventTellsOutcome ==
    TerminalEventSent =>
        /\ result.returned
        /\ SomeStageFailed =>
              (TerminalEvent.type = "error" /\ TerminalEvent.error # NoException)
        /\ ~SomeStageFailed => TerminalEvent.type = "complete"

\* the processing thread was started and process_document has not returned
ThreadRunning == pc \notin {"upload", "rejected", "received", "done"}

\* C40: the temporary file is not deleted while the processing thread
\* runs: when it is deleted, the thread was never started or has finished
C40_NoDeleteWhileThreadRuns == tmp_file = "deleted" => ~ThreadRunning

\* the file was deleted after the client had gone while the thread was at
\* work, once the thread had finished
C40_Witness ==
    /\ tmp_file = "deleted" /\ client = "gone" /\ pc = "done"
    /\ g_sent < QueueEvents

\* C29: once the client has gone, process_document starts no further
\* phase: no parse, chunking, embedding call or vector-store write begins
C29_NoPhaseAfterCancellation == [][client = "gone" => started' = started]_vars

(***************************************************************************)
(* SpecFanOut: each of the four worker pools at work: generate_embeddings  *)
(* on its own and inside process_document, upsert_vectors inside           *)
(* process_document, the image pools of the parsers, and                   *)
(* search_documents_parallel called with any list of queries               *)
(***************************************************************************)
MaxSearchTasks == 6

QueryNames == <<"q0", "q1", "q2", "q3", "q4", "q5", "q6", "q7">>

\* what the store answers a search in this specification: the first call
\* raises and the second finds nothing
FanOutAnswers == {<<Raise, Returns(<<>>)>>}

\* search_documents_parallel(queries): nothing to do without a retriever
\* or without queries; else the pool, or the loop over the queries
SearchDocumentsParallel ==
    /\ r_pc = "search_called"
    /\ IF ~has_retriever \/ search_queries = <<>>
       THEN r_pc' = "searched"
       ELSE r_pc' = IF parallel_search /\ Len(search_queries) > 1
                    THEN "fanout" ELSE "sequential"
    /\ UNCHANGED <<has_retriever, rag_enabled, query_gen, parallel_search, expansion_failed,
                   score_results, search_queries, s_st, s_docs, s_log, s_order,
                   relevant_docs, r_steps, r_found, r_result>>

InitSearchFanOut ==
    /\ r_pc = "search_called"
    /\ has_retriever \in BOOLEAN
    /\ rag_enabled = TRUE
    /\ query_gen = TRUE
    /\ parallel_search \in BOOLEAN
    /\ \E n \in 0..MaxSearchTasks :
          /\ search_queries = SubSeq(QueryNames, 1, n)
          /\ s_st = [i \in 1..n |-> "queued"]
          /\ s_docs = [i \in 1..n |-> NotSearched]
          /\ s_log = [i \in 1..n |-> NoLog]
    /\ expansion_failed = <<FALSE, FALSE>> /\ score_results = <<>> /\ s_order = <<>>
    /\ relevant_docs = <<>> /\ r_steps = <<>> /\ r_found = FALSE /\ r_result = NotReturned
    /\ FnOff
    /\ EmbedOff /\ UpsertOff /\ DocOff /\ IdOff /\ SplitOff /\ ParseOff /\ StreamOff /\ IndexOff /\ DataOff

InitIngestFanOut ==
    /\ pc = "request"
    /\ file_ext = ".txt"
    /\ DocIdle
    /\ texts = <<>> /\ e_pc = "idle" /\ EmbedIdle
    /\ batch_size \in 1..MaxBatchSize
    /\ embed_workers \in 1..MaxWorkers
    /\ pinecone_batch_size = batch_size
    /\ upsert_workers = embed_workers
    /\ hash_fn = [x \in HashDomain |-> "h1"]
    /\ u_pc = "idle" /\ UpsertIdle
    /\ RagOff /\ IdOff /\ SplitOff /\ ParseOff /\ StreamOff /\ IndexOff /\ DataOff

InitFanOut == InitEmbed \/ InitIngestFanOut \/ InitParse \/ InitSearchFanOut

SearchFanOutStep ==
    \/ SearchDocumentsParallel
    \/ \E i \in 1..NumQueries : SearchStart(i)
    \/ \E i \in 1..NumQueries, a \in FanOutAnswers : SearchFinish(i, a[1], a[2])
    \/ \E i \in 1..NumQueries : SearchCollect(i)
    \/ \E a \in FanOutAnswers : SearchSequential(a[1], a[2])

NextFanOut ==
    \/ NextIngest
    \/ NextParse
    \/ SearchFanOutStep /\ UNCHANGED <<embVars, upVars, docVars, fnVars, idVars, splitVars, parseVars, streamVars, indexVars, dataVars>>

SpecFanOut == InitFanOut /\ [][NextFanOut]_vars

\* C30: at each of the four fan-out points the calls in flight are never
\* more than the worker width configured for it (5 for the multi-query
\* search) and never more than the tasks submitted; the loop that replaces
\* the search pool has no call in flight between two rounds
C30_InFlightWithinWidth ==
    /\ Cardinality(Running) <= embed_workers
    /\ Cardinality(Running) <= NumBatches
    /\ Cardinality(UpsertRunning) <= upsert_workers
    /\ Cardinality(UpsertRunning) <= NumUpsertBatches
    /\ Cardinality(ImagesRunning) <= image_workers
    /\ Cardinality(ImagesRunning) <= Len(image_data_list)
    /\ Cardinality(SearchRunning) <= SearchPoolCap
    /\ Cardinality(SearchRunning) <= NumQueries
    /\ r_pc = "sequential" => SearchRunning = {}

\* the search pool is full and a query still waits for a worker
C30_Witness ==
    /\ r_pc = "fanout"
    /\ Cardinality(SearchRunning) = SearchPoolCap
    /\ SearchQueued # {}

(***************************************************************************)
(* PineconeService.get_index, called by process_document, upsert_vectors,  *)
(* delete_by_filename and get_stats of one process                         *)
(***************************************************************************)
MaxCallers == 3
MaxCreateCalls == 3

IndexOps == {"ingest", "delete", "stats"}

\* a caller enters get_index: with a client it opens the index, without
\* one it asks pinecone.list_indexes() first
GetIndexEnter(c) ==
    /\ gi_pc[c] = "idle"
    /\ gi_pc' = [gi_pc EXCEPT ![c] =
                    IF pinecone_client = "client" THEN "index"
                    ELSE IF index_exists THEN "reopen" ELSE "create"]
    /\ UNCHANGED <<index_exists, create_calls, gi_op, pinecone_client>>

\* return self.pinecone_client.Index(index_name): it returns the index,
\* which takes an index that exists, or it raises (no index, or the
\* service cannot be reached)
IndexOpen(c, ok) ==
    /\ gi_pc[c] = "index"
    /\ ok => index_exists
    /\ gi_pc' = [gi_pc EXCEPT ![c] = IF ok THEN "returned" ELSE "create"]
    /\ UNCHANGED <<index_exists, create_calls, gi_op, pinecone_client>>

\* create_index(name=index_name, dimension=1536, metric="cosine"): the
\* service creates the index when there is none, and the call raises when
\* there is one already or the service cannot be reached
CreateIndex(c, ok) ==
    /\ gi_pc[c] = "create"
    /\ create_calls < MaxCreateCalls
    /\ ok => ~index_exists
    /\ create_calls' = create_calls + 1
    /\ index_exists' = (index_exists \/ ok)
    /\ gi_pc' = [gi_pc EXCEPT ![c] = IF ok THEN "reopen" ELSE "raised"]
    /\ UNCHANGED <<gi_op, pinecone_client>>

\* the Index(index_name) that follows create_index or list_indexes
IndexReopen(c, ok) ==
    /\ gi_pc[c] = "reopen"
    /\ ok => index_exists
    /\ gi_pc' = [gi_pc EXCEPT ![c] = IF ok THEN "returned" ELSE "raised"]
    /\ UNCHANGED <<index_exists, create_calls, gi_op, pinecone_client>>

GetIndexStep ==
    \/ \E c \in 1..Len(gi_pc) : GetIndexEnter(c)
    \/ \E c \in 1..Len(gi_pc), ok \in BOOLEAN : IndexOpen(c, ok)
    \/ \E c \in 1..Len(gi_pc), ok \in BOOLEAN : CreateIndex(c, ok)
    \/ \E c \in 1..Len(gi_pc), ok \in BOOLEAN : IndexReopen(c, ok)

(***************************************************************************)
(* SpecIndex: ingestions, deletes and stats calls of one process, one      *)
(* after the other or at the same time, on a service with or without the   *)
(* index                                                                   *)
(***************************************************************************)
InitIndex ==
    /\ index_exists \in BOOLEAN
    /\ create_calls = 0
    /\ pinecone_client \in {"client", "none"}
    /\ \E n \in 1..MaxCallers :
          /\ gi_pc = [c \in 1..n |-> "idle"]
          /\ gi_op \in [1..n -> IndexOps]
    /\ EmbedOff /\ UpsertOff /\ DocOff /\ RagOff /\ IdOff /\ SplitOff /\ ParseOff
    /\ StreamOff /\ DataOff

NextIndex ==
    GetIndexStep /\ UNCHANGED <<embVars, upVars, docVars, fnVars, ragVars, idVars, splitVars,
                                parseVars, streamVars, dataVars>>

SpecIndex == InitIndex /\ [][NextIndex]_vars

\* C31: whatever ingestions, deletes and stats calls a process makes, and
\* however they interleave, it calls create_index at most once
C31_CreateIndexAtMostOnce == create_calls <= 1

(***************************************************************************)
(* DataService.save_user_data: calls of the /save route and of the chat    *)
(* stream, whose generator runs in a worker thread, on one table           *)
(***************************************************************************)
MaxCalls == 3

\* the email of user_data; "" stands for a missing or empty one
Emails == {"a@x", "b@x", ""}

Row(id, email) == [id |-> id, email |-> email]

\* existing.data of select("*").eq("email", email)
RowsWithEmail(email) == SelectSeq(table, LAMBDA r : r.email = email)

NotSaved == [returned |-> FALSE, success |-> FALSE, already_exists |-> FALSE, id |-> 0]
SaveFailed == [returned |-> TRUE, success |-> FALSE, already_exists |-> FALSE, id |-> 0]
AlreadyExists(row) ==
    [returned |-> TRUE, success |-> TRUE, already_exists |-> TRUE, id |-> row.id]
Saved(id) == [returned |-> TRUE, success |-> TRUE, already_exists |-> FALSE, id |-> id]

\* if email: existing = ...select("*").eq("email", email).execute(); a row
\* found is returned as it is; the select may raise
SaveSelect(i, ok) ==
    /\ sv_pc[i] = "called"
    /\ IF sv_email[i] = ""
       THEN /\ ok
            /\ sv_pc' = [sv_pc EXCEPT ![i] = "selected"]
            /\ UNCHANGED sv_res
       ELSE IF ~ok
       THEN /\ sv_pc' = [sv_pc EXCEPT ![i] = "returned"]
            /\ sv_res' = [sv_res EXCEPT ![i] = SaveFailed]
       ELSE IF RowsWithEmail(sv_email[i]) # <<>>
       THEN /\ sv_pc' = [sv_pc EXCEPT ![i] = "returned"]
            /\ sv_res' = [sv_res EXCEPT ![i] = AlreadyExists(RowsWithEmail(sv_email[i])[1])]
       ELSE /\ sv_pc' = [sv_pc EXCEPT ![i] = "selected"]
            /\ UNCHANGED sv_res
    /\ UNCHANGED <<table, notified, sv_email>>

\* result = ...insert(data).execute(): the row is added, or the call raises
SaveInsert(i, ok) ==
    /\ sv_pc[i] = "selected"
    /\ IF ok
       THEN /\ table' = Append(table, Row(Len(table) + 1, sv_email[i]))
            /\ sv_pc' = [sv_pc EXCEPT ![i] = "inserted"]
            \* result.data[0], kept for the return
            /\ sv_res' = [sv_res EXCEPT ![i].id = Len(table) + 1]
       ELSE /\ sv_pc' = [sv_pc EXCEPT ![i] = "returned"]
            /\ sv_res' = [sv_res EXCEPT ![i] = SaveFailed]
            /\ UNCHANGED table
    /\ UNCHANGED <<notified, sv_email>>

\* self._send_structured_output(data), whose failure is logged only, and
\* the return of the new record
SaveNotify(i, sent) ==
    /\ sv_pc[i] = "inserted"
    /\ notified' = IF sent THEN Append(notified, sv_email[i]) ELSE notified
    /\ sv_pc' = [sv_pc EXCEPT ![i] = "returned"]
    /\ sv_res' = [sv_res EXCEPT ![i] = Saved(sv_res[i].id)]
    /\ UNCHANGED <<table, sv_email>>

SaveStep ==
    \/ \E i \in 1..Len(sv_pc), ok \in BOOLEAN : SaveSelect(i, ok)
    \/ \E i \in 1..Len(sv_pc), ok \in BOOLEAN : SaveInsert(i, ok)
    \/ \E i \in 1..Len(sv_pc), sent \in BOOLEAN : SaveNotify(i, sent)

(***************************************************************************)
(* SpecSave: up to MaxCalls calls of save_user_data, in any interleaving,  *)
(* on a table that is empty or holds one row                               *)
(***************************************************************************)
InitSave ==
    /\ table \in {<<>>, <<Row(1, "a@x")>>}
    /\ notified = <<>>
    /\ \E n \in 1..MaxCalls :
          /\ sv_pc = [i \in 1..n |-> "called"]
          /\ sv_email \in [1..n -> Emails]
          /\ sv_res = [i \in 1..n |-> NotSaved]
    /\ EmbedOff /\ UpsertOff /\ DocOff /\ RagOff /\ IdOff /\ SplitOff /\ ParseOff
    /\ StreamOff /\ IndexOff

NextSave ==
    SaveStep /\ UNCHANGED <<embVars, upVars, docVars, fnVars, ragVars, idVars, splitVars,
                            parseVars, streamVars, indexVars>>

SpecSave == InitSave /\ [][NextSave]_vars

\* C32: the table never holds two rows with one email address, and a call
\* answered with already_exists=true names a row of the table that has the
\* call's email
C32_OneRecordPerEmail ==
    /\ \A e \in Emails \ {""} : Len(RowsWithEmail(e)) <= 1
    /\ \A i \in 1..Len(sv_pc) :
          sv_res[i].already_exists =>
              \E k \in 1..Len(table) : table[k].id = sv_res[i].id /\ table[k].email = sv_email[i]

(***************************************************************************)
(* SpecScenario: a plain-text document of twice DOCUMENT_CHUNK_SIZE        *)
(* characters split under the shipped configuration, at a reduced scale:   *)
(* ScenarioUnit characters of the model stand for DOCUMENT_CHUNK_OVERLAP   *)
(* characters of the document                                              *)
(***************************************************************************)
ScenarioUnit == 1

DOCUMENT_CHUNK_SIZE == 1500
DOCUMENT_CHUNK_OVERLAP == 150

Scaled(n) == (n * ScenarioUnit) \div DOCUMENT_CHUNK_OVERLAP

ScenarioLength == Scaled(2 * DOCUMENT_CHUNK_SIZE)

\* the documents: letters only, or letters with one or two other
\* characters somewhere
ScenarioDocuments ==
    {[k \in 1..ScenarioLength |-> IF k = p THEN c ELSE IF k = q THEN d ELSE "x"] :
        p \in 1..ScenarioLength, q \in {ScenarioLength \div 2, ScenarioLength},
        c \in Chars, d \in {"x", " "}}

InitScenario ==
    /\ sp_pc = "new"
    /\ content \in ScenarioDocuments
    /\ chunk_size = Scaled(DOCUMENT_CHUNK_SIZE)
    /\ chunk_overlap = Scaled(DOCUMENT_CHUNK_OVERLAP)
    /\ EmbedOff /\ UpsertOff /\ DocOff /\ RagOff /\ IdOff /\ ParseOff /\ StreamOff /\ IndexOff /\ DataOff

SpecScenario == InitScenario /\ [][NextSplit]_vars

\* the last n characters of a chunk, and its first n
Tail_(chunk, n) == SubSeq(chunk, Len(chunk) - n + 1, Len(chunk))
Head_(chunk, n) == SubSeq(chunk, 1, n)

\* C33: the document of twice the chunk size gives exactly 3 chunks, none
\* longer than the chunk size, and every chunk but the first begins with
\* the last chunk_overlap characters of the chunk before it
C33_ScenarioThreeChunks ==
    sp_pc = "split" =>
        /\ Len(chunks) = 3
        /\ \A k \in 1..Len(chunks) : Len(chunks[k]) <= chunk_size
        /\ \A k \in 1..(Len(chunks) - 1) :
              /\ Len(chunks[k]) >= chunk_overlap
              /\ Len(chunks[k + 1]) >= chunk_overlap
              /\ Tail_(chunks[k], chunk_overlap) = Head_(chunks[k + 1], chunk_overlap)

(***************************************************************************)
(* SpecUpsert: upsert_vectors called with the vectors of any document      *)
(***************************************************************************)
InitUpsert ==
    /\ hash_fn \in IngestHashFns
    /\ \E cs \in SeqsUpTo(Texts, MaxTexts) :
          vectors = PrepareVectors(ChunkRecords(cs, Filename), EmbedDocuments(cs), Filename)
    /\ pinecone_batch_size \in 1..MaxBatchSize
    /\ upsert_workers \in 1..MaxWorkers
    /\ u_pc = "called"
    /\ u_st = <<>> /\ u_res = <<>> /\ u_pending = <<>>
    /\ upserted_count = 0 /\ u_error = NoException /\ store = {}
    /\ EmbedOff /\ DocOff /\ RagOff /\ IdOff /\ SplitOff /\ ParseOff /\ StreamOff
    /\ IndexOff /\ DataOff

NextUpsert ==
    UpsertStep /\ UNCHANGED <<embVars, docVars, fnVars, ragVars, idVars, splitVars, parseVars,
                              streamVars, indexVars, dataVars>>

SpecUpsert == InitUpsert /\ [][NextUpsert]_vars

\* the ids of the vectors of a list
IdsIn(vs) == {vs[k].id : k \in 1..Len(vs)}

\* the batches upsert_vectors made
VectorBatches == Batches(vectors, pinecone_batch_size)

\* C36: when every batch write succeeded, upsert_vectors returns the number
\* of vectors it was given, the store holds every one of them, the batches
\* put end to end are the given list (each vector in exactly one batch, and
\* every batch written once), and no batch is longer than the batch size
C36_AllWrittenOnce ==
    (u_pc = "returned" /\ vectors # <<>> /\ FailedWrites = {}) =>
        /\ upserted_count = Len(vectors)
        /\ store = IdsIn(vectors)
        /\ Concat([b \in 1..Len(VectorBatches) |-> VectorBatches[b].items]) = vectors
        /\ \A b \in 1..Len(VectorBatches) : Len(VectorBatches[b].items) <= pinecone_batch_size
        /\ \A b \in 1..NumUpsertBatches :
              u_st[b] = "collected" /\ u_res[b] = UpsertOk(b, Len(VectorBatches[b].items))

\* three vectors written in two batches, the last one not full
C36_Witness ==
    /\ u_pc = "returned" /\ FailedWrites = {}
    /\ Len(vectors) = 3 /\ pinecone_batch_size = 2 /\ upserted_count = 3

\* C37: when upsert_vectors has raised, every batch has run, those that
\* were queued or in flight when the failure was collected included, and
\* the store holds exactly the vectors of the batches whose write succeeded:
\* nothing is taken back
C37_NoCompensatingDelete ==
    u_pc = "raised" /\ u_st # <<>> =>
        /\ \A b \in 1..NumUpsertBatches : u_st[b] \in {"finished", "collected"}
        /\ store = UNION {IdsIn(VectorBatches[b].items) :
                            b \in {c \in 1..NumUpsertBatches : ~u_res[c].hasErr}}

\* a failed upsert that left some of the document's vectors in the store,
\* some of them written by a batch the collector never came to
C37_Witness ==
    /\ u_pc = "raised"
    /\ store # {} /\ store # IdsIn(vectors)
    /\ \E b \in 1..NumUpsertBatches : u_st[b] = "finished" /\ ~u_res[b].hasErr

=============================================================================
